---- MODULE Spec2Model ----
(***************************************************************************)
(* Reconciliation and execution loop of vault-3: the single-flight scan    *)
(* orchestrator (CopyTradingManager.scanTraders / _doScan), the copy       *)
(* planner (syncPosition / executePositionSync), the venue adapter         *)
(* (HyperliquidConnector) and the independent trader (IndependentTrader).  *)
(*                                                                         *)
(* Time is counted in minutes.  Sizes are integer contract units, money is *)
(* integer USD.  Every await of the source is a point where another        *)
(* callback may run; the code between two awaits is one atomic action.     *)
(***************************************************************************)
EXTENDS Integers, Sequences, FiniteSets, TLC

\* ------------------------------------------------------------------ bounds
MaxNow == 9
MaxScans == 2
MaxTargetMoves == 1
MaxPlanSize == 12
MaxCoolNow == 3

\* --------------------------------------------------------- program constants
SCAN_TIMEOUT_MS == 4
FAILED_ORDER_COOLDOWN_MS == 5
BATCH_SIZE == 5
MIN_POSITION_SIZE_USD == 5
EXCHANGE_MIN_POSITION_VALUE == 10
MAX_POSITIONS == 3
LEVERAGE == 5
MIN_SCORE == 90
HOLD_HOURS == 4
USE_TIME_BASED_EXIT == TRUE
TP_PCT == <<20, 100>>
SL_PCT == <<12, 100>>

\* POSITION_ADJUST_THRESHOLD = 0.1 and COPY_SCALE_MULTIPLIER = 1.3 and
\* MAX_ALLOCATION_PCT = 0.10 are kept as exact fractions.
POSITION_ADJUST_THRESHOLD == <<1, 10>>
COPY_SCALE_MULTIPLIER == <<13, 10>>
MAX_ALLOCATION_PCT == <<1, 10>>
COPY_MODE == "scaled"

\* The instruments of the model: AAVE is on the independent whitelist,
\* SOL is traded by the copy planner only.  BTC, ETH and HYPE fill a book
\* that needs more than one batch.
Symbols == {"AAVE", "VVV", "SOL", "BTC", "ETH", "HYPE"}
WHITELIST == {"AAVE", "VVV"}
SymbolOrder == <<"SOL", "AAVE", "VVV", "BTC", "ETH", "HYPE">>


\* Mid prices (allMids) and instrument metadata (meta().universe).  VVV is
\* the cheap instrument: one contract of it is worth less than the exchange
\* minimum order value.
allMarkets == [s \in Symbols |-> IF s = "VVV" THEN 5 ELSE 10]
maxLeverage == [s \in Symbols |-> 5]

\* Account values: target equity, and the operator's account value.
TargetEquity == 390
OurEquity == 300

VARIABLES
  now,                    \* Date.now(), minutes
  isScanRunning,          \* CopyTradingManager.ts:36
  lastScanStartTime,      \* CopyTradingManager.ts:37
  failedOrders,           \* symbol -> time of the failed open/flip, 0 = no entry
  assetMetadataFetched,   \* metadata cache populated
  scan,                   \* one record per invocation of _doScan
  task,                   \* one record per syncPosition call [scan][symbol]
  targetPositions,        \* venue: the target account's positions
  ourPositions,           \* venue: the operator account's positions
  independentPosition,    \* store: IndependentPosition table (sequence of rows)
  currentScanPredictions, \* PredictionLogger.ts:50, symbol -> cached prediction
  predictionTable,        \* store: Prediction rows [scan][symbol]
  tradeTable,             \* store: copy-trade telemetry rows (prisma.trade)
  CONFIG,                 \* IndependentTrader CONFIG (ENABLED, LEVERAGE), fixed
  ourEquity,              \* venue: the operator's account value
  hotSymbols,             \* symbols whose market state can score >= MIN_SCORE
  lastTick,               \* outcome of the latest scanTraders call
  targetMoves,            \* number of changes of the target's book so far
  plan,                   \* one classification of syncPosition: inputs and action
  prediction              \* one Prediction row of PredictionLogger: inputs and fields

mutexVars == <<isScanRunning, lastScanStartTime>>
venueVars == <<targetPositions, ourPositions, ourEquity, targetMoves>>
cfgVars == <<CONFIG, hotSymbols, plan, prediction>>
storeVars == <<independentPosition, predictionTable, tradeTable>>
vars == <<now, isScanRunning, lastScanStartTime, failedOrders,
          assetMetadataFetched, scan, task, targetPositions, ourPositions,
          independentPosition, currentScanPredictions, predictionTable,
          tradeTable, CONFIG, ourEquity, hotSymbols, lastTick, targetMoves, plan,
          prediction>>

ScanIds == 1..MaxScans

\* ------------------------------------------------------------ venue values
\* A clearinghouseState assetPositions entry.  present = FALSE stands for an
\* absent entry (Array.find returns undefined).
NoPosition == [present |-> FALSE, szi |-> 0, entryPx |-> 0,
               liquidationPx |-> 0, leverage |-> 0]
LongPos(n, lev) == [present |-> TRUE, szi |-> n, entryPx |-> 10,
                    liquidationPx |-> 8, leverage |-> lev]
ShortPos(n, lev) == [present |-> TRUE, szi |-> 0 - n, entryPx |-> 10,
                     liquidationPx |-> 12, leverage |-> lev]

Abs(x) == IF x < 0 THEN 0 - x ELSE x
Min(a, b) == IF a < b THEN a ELSE b

\* HyperliquidConnector.positionSide
positionSide(position) ==
  IF position.entryPx > position.liquidationPx THEN "long" ELSE "short"

\* Margin held by one position, and the account's withdrawable balance.
MarginOf(p, sym) ==
  IF p.present /\ p.szi # 0 THEN (Abs(p.szi) * allMarkets[sym]) \div p.leverage ELSE 0
RECURSIVE SumMargin(_, _)
SumMargin(book, S) ==
  IF S = {} THEN 0
  ELSE LET x == CHOOSE y \in S : TRUE
       IN MarginOf(book[x], x) + SumMargin(book, S \ {x})
Withdrawable(book, equity) ==
  LET w == equity - SumMargin(book, Symbols) IN IF w < 0 THEN 0 ELSE w
\* getPortfolio(trader)
getPortfolio(book, equity) ==
  [portfolio |-> equity, available |-> Withdrawable(book, equity)]

\* ------------------------------------------------------------ store values
\* IndependentTrader.isEnabled(): CONFIG.ENABLED, fixed for the process.
\* Rows of the IndependentPosition table that are open or confirmed.
ActiveRows(table, sym) ==
  {k \in 1..Len(table) : table[k].symbol = sym /\ table[k].status \in {"open", "confirmed"}}
AllActiveRows(table) ==
  {k \in 1..Len(table) : table[k].status \in {"open", "confirmed"}}

\* IndependentTrader.hasIndependentPosition: findFirst has no orderBy, so with
\* several matching rows any of them may be the one returned.
hasIndependentPosition(table, sym) ==
  IF ActiveRows(table, sym) = {}
  THEN {[exists |-> FALSE, confirmed |-> FALSE]}
  ELSE {[exists |-> TRUE, confirmed |-> (table[k].status = "confirmed")] :
          k \in ActiveRows(table, sym)}

\* IndependentTrader.confirmPosition: updateMany on the rows with status open.
confirmPosition(table, sym) ==
  [k \in 1..Len(table) |->
     IF table[k].symbol = sym /\ table[k].status = "open"
     THEN [table[k] EXCEPT !.status = "confirmed", !.confirmedByTarget = TRUE]
     ELSE table[k]]

\* ------------------------------------------------------------ copy planner
\* scaleFactor as an exact fraction <<numerator, denominator>>.
ScaleFactor(ourPortfolio, targetPortfolio) ==
  IF COPY_MODE = "exact" THEN <<1, 1>>
  ELSE <<ourPortfolio.portfolio * COPY_SCALE_MULTIPLIER[1],
         targetPortfolio.portfolio * COPY_SCALE_MULTIPLIER[2]>>

\* The position delta computed at the top of syncPosition.
SideOf(position) == IF position.present THEN positionSide(position) ELSE "none"
SizeOf(position) == IF position.present THEN Abs(position.szi) ELSE 0
LeverageOf(position) ==
  IF position.present /\ position.leverage # 0 THEN position.leverage ELSE 1
PositionDelta(sym, targetPosition, ourPosition, scaleFactor) ==
  [symbol |-> sym,
   targetSide |-> SideOf(targetPosition),
   ourSide |-> SideOf(ourPosition),
   targetSize |-> SizeOf(targetPosition),
   ourSize |-> SizeOf(ourPosition),
   targetSizeForUs |-> (SizeOf(targetPosition) * scaleFactor[1]) \div scaleFactor[2],
   targetLeverage |-> LeverageOf(targetPosition)]

\* The same comparison made inclusive.
NeedsAdjustInclusive(ourSize, targetSizeForUs) ==
  Abs(ourSize - targetSizeForUs) * POSITION_ADJUST_THRESHOLD[2]
     >= targetSizeForUs * POSITION_ADJUST_THRESHOLD[1]

\* sizeDiff > sizeThreshold with POSITION_ADJUST_THRESHOLD as a fraction.
NeedsAdjust(ourSize, targetSizeForUs) ==
  Abs(ourSize - targetSizeForUs) * POSITION_ADJUST_THRESHOLD[2]
     > targetSizeForUs * POSITION_ADJUST_THRESHOLD[1]

\* The branch taken by "Determine required action" of syncPosition.  indep is
\* the answer of hasIndependentPosition, consulted only when the independent
\* trader is enabled.  "skip" is the early return, "none" is needsAction false.
Classify(targetSide, ourSide, targetSizeForUs, ourSize, enabled, indep) ==
  IF targetSide = "none" /\ ourSide # "none"
  THEN IF enabled /\ indep.exists /\ ~indep.confirmed THEN "skip" ELSE "close"
  ELSE IF targetSide # "none" /\ ourSide = "none" THEN "open"
  ELSE IF targetSide # "none" /\ ourSide # "none" /\ targetSide # ourSide THEN "flip"
  ELSE IF targetSide # "none" /\ ourSide # "none" /\ targetSide = ourSide
  THEN IF NeedsAdjust(ourSize, targetSizeForUs) THEN "adjust" ELSE "none"
  ELSE "none"

\* getTickerConfig: null without metadata, else the leverage capped at max.
getTickerConfig(sym, targetLeverage, fetched) ==
  IF ~fetched THEN [ok |-> FALSE, leverage |-> 0]
  ELSE [ok |-> TRUE, leverage |-> Min(targetLeverage, maxLeverage[sym])]

\* The synchronous gates of executePositionSync (cool-down, mid price,
\* minimum margin, minimum notional, minimum adjustment): TRUE when the call
\* returns before its first await.
\* A cool-down check that still suppresses at exactly the end of the window.
CoolingDownInclusive(failed, sym, t) ==
  failed[sym] # 0 /\ (t - failed[sym]) <= FAILED_ORDER_COOLDOWN_MS

CoolingDown(failed, sym, t) ==
  failed[sym] # 0 /\ (t - failed[sym]) < FAILED_ORDER_COOLDOWN_MS
PositionValueUSD(delta) == delta.targetSizeForUs * allMarkets[delta.symbol]
\* The gates without the minimum-adjustment test of case 'adjust'.
GatedWithoutAdjustMinimum(delta, action, failed, t) ==
  \/ action \in {"open", "flip"} /\ CoolingDown(failed, delta.symbol, t)
  \/ allMarkets[delta.symbol] = 0
  \/ action # "close"
       /\ PositionValueUSD(delta) < MIN_POSITION_SIZE_USD * delta.targetLeverage
  \/ action # "close" /\ PositionValueUSD(delta) < EXCHANGE_MIN_POSITION_VALUE

\* The gates with the cool-down applied to every action.
GatedWithCoolDownForAll(delta, action, failed, t) ==
  \/ CoolingDown(failed, delta.symbol, t)
  \/ allMarkets[delta.symbol] = 0
  \/ action # "close"
       /\ PositionValueUSD(delta) < MIN_POSITION_SIZE_USD * delta.targetLeverage
  \/ action # "close" /\ PositionValueUSD(delta) < EXCHANGE_MIN_POSITION_VALUE
  \/ action = "adjust"
       /\ Abs(delta.targetSizeForUs - delta.ourSize) * allMarkets[delta.symbol]
            < EXCHANGE_MIN_POSITION_VALUE

\* The gates without the minimum-margin and minimum-value tests.
GatedWithoutMinimums(delta, action, failed, t) ==
  \/ action \in {"open", "flip"} /\ CoolingDown(failed, delta.symbol, t)
  \/ allMarkets[delta.symbol] = 0
  \/ action = "adjust"
       /\ Abs(delta.targetSizeForUs - delta.ourSize) * allMarkets[delta.symbol]
            < EXCHANGE_MIN_POSITION_VALUE

GatedOut(delta, action, failed, t) ==
  \/ action \in {"open", "flip"} /\ CoolingDown(failed, delta.symbol, t)
  \/ allMarkets[delta.symbol] = 0
  \/ action # "close"
       /\ PositionValueUSD(delta) < MIN_POSITION_SIZE_USD * delta.targetLeverage
  \/ action # "close" /\ PositionValueUSD(delta) < EXCHANGE_MIN_POSITION_VALUE
  \/ action = "adjust"
       /\ Abs(delta.targetSizeForUs - delta.ourSize) * allMarkets[delta.symbol]
            < EXCHANGE_MIN_POSITION_VALUE

\* executePositionSync with the close leg of a flip ahead of the margin check.
FirstAwaitCloseFirst(delta, action, failed, t) ==
  IF GatedOut(delta, action, failed, t) THEN "done"
  ELSE IF action = "open" THEN "margin"
  ELSE IF action \in {"close", "flip"} THEN "closeLeg"
  ELSE IF delta.targetSizeForUs - delta.ourSize > 0 THEN "openLeg"
  ELSE "closeLeg"

\* Where executePositionSync stops at its first await.
FirstAwait(delta, action, failed, t) ==
  IF GatedOut(delta, action, failed, t) THEN "done"
  ELSE IF action \in {"open", "flip"} THEN "margin"
  ELSE IF action = "close" THEN "closeLeg"
  ELSE IF delta.targetSizeForUs - delta.ourSize > 0 THEN "openLeg"
  ELSE "closeLeg"

\* ------------------------------------------------------------ venue adapter
\* Number.toFixed(szDecimals) with szDecimals = 0: a / b rounded to nearest.
RoundDiv(a, b) == (2 * a + b) \div (2 * b)

\* The book after a filled order of `size` contracts (buy when long).
Filled(book, sym, long, size, leverage) ==
  LET cur == book[sym]
      szi == (IF cur.present THEN cur.szi ELSE 0) + (IF long THEN size ELSE 0 - size)
      lev == IF cur.present THEN cur.leverage ELSE leverage
  IN [book EXCEPT ![sym] =
        IF szi = 0 THEN NoPosition
        ELSE IF szi > 0 THEN LongPos(szi, lev) ELSE ShortPos(0 - szi, lev)]

\* An openCopyPosition that does not look at the operator's position.
openCopyPositionUnread(book, equity, sym, long, size, leverage, allowAddToExisting) ==
  {[requested |-> FALSE, threw |-> TRUE, book |-> book, size |-> 0],
   [requested |-> TRUE, threw |-> TRUE, book |-> book, size |-> size],
   [requested |-> TRUE, threw |-> FALSE, size |-> size,
    book |-> Filled(book, sym, long, size, leverage)]}

\* HyperliquidConnector.openCopyPosition.  The set of possible outcomes:
\* requested = an order request was sent, threw = the call raised.
openCopyPosition(book, equity, sym, long, size, leverage, allowAddToExisting) ==
  LET position == book[sym]
      market == allMarkets[sym]
      portfolio == getPortfolio(book, equity)
      capped == size * market * 100 > portfolio.available * leverage * 95
      actualSize == IF capped
                    THEN RoundDiv(portfolio.available * leverage * 95, 100 * market)
                    ELSE size
      affordable == actualSize > 0
                    /\ actualSize * market <= portfolio.available * leverage
  IN IF position.present /\ ~allowAddToExisting
     THEN {[requested |-> FALSE, threw |-> FALSE, book |-> book, size |-> 0]}
     ELSE {[requested |-> FALSE, threw |-> TRUE, book |-> book, size |-> 0],
           [requested |-> TRUE, threw |-> TRUE, book |-> book, size |-> actualSize]}
          \cup (IF affordable
                THEN {[requested |-> TRUE, threw |-> FALSE, size |-> actualSize,
                       book |-> Filled(book, sym, long, actualSize, leverage)]}
                ELSE {})

\* HyperliquidConnector.marketClosePosition, percent = pn / pd.  A rejected
\* order is logged and swallowed (.catch), a failed position read raises.
marketClosePosition(book, sym, long, pn, pd) ==
  LET position == book[sym]
      matches == position.present
                 /\ ((positionSide(position) = "long" /\ long)
                     \/ (positionSide(position) = "short" /\ ~long))
      orderSize == RoundDiv(Abs(position.szi) * pn, pd)
      closeSize == Min(orderSize, Abs(position.szi))
  IN {[requested |-> FALSE, threw |-> TRUE, book |-> book]}
     \cup (IF matches
           THEN {[requested |-> TRUE, threw |-> FALSE, book |-> book]}
                \cup (IF orderSize > 0
                      THEN {[requested |-> TRUE, threw |-> FALSE,
                             book |-> Filled(book, sym, ~long, closeSize, position.leverage)]}
                      ELSE {})
           ELSE {[requested |-> FALSE, threw |-> FALSE, book |-> book]})

\* ------------------------------------------------------------ initial state
NoBook == [s \in Symbols |-> NoPosition]
NoPrediction == [id |-> 0, score |-> 0, direction |-> 0]
BlankSignals == [eligible |-> <<>>, openCount |-> 0, currentAllocation |-> 0,
                 maxAllocationUsd |-> 0, available |-> 0]
BlankScan == [pc |-> "idle", scanStartTime |-> 0, targetPositions |-> NoBook,
              ourPositions |-> NoBook, scaleFactor |-> <<1, 1>>,
              allSymbols |-> <<>>, batchAt |-> 0, tradedSymbols |-> {},
              signals |-> BlankSignals, openPositions |-> <<>>]
BlankDelta == PositionDelta("SOL", NoPosition, NoPosition, <<1, 1>>)
NoIndependent == [exists |-> FALSE, confirmed |-> FALSE]
BlankTask == [pc |-> "idle", action |-> "none", abandoned |-> FALSE,
              delta |-> BlankDelta, indepStatus |-> NoIndependent, events |-> <<>>]
\* No Prediction row is being written or validated.
NoRow == [stage |-> "none"]
BlankPlan == [targetPosition |-> NoPosition, ourPosition |-> NoPosition,
              enabled |-> FALSE, indepStatus |-> NoIndependent, action |-> "pending"]

\* The books the target can hold, and the operator's book at process start.
TargetBooks ==
  {[s \in Symbols |-> IF s = "SOL" THEN p ELSE IF s = "AAVE" THEN q ELSE NoPosition] :
     p \in {NoPosition, LongPos(68, 5), ShortPos(68, 5)},
     q \in {NoPosition, LongPos(70, 5)}}
InitialBooks ==
  {[s \in Symbols |-> IF s = "SOL" THEN p ELSE NoPosition] :
     p \in {NoPosition, LongPos(68, 5), LongPos(80, 5)}}

InitIdle ==
  /\ now = 1
  /\ isScanRunning = FALSE
  /\ lastScanStartTime = 0
  /\ failedOrders = [s \in Symbols |-> 0]
  /\ assetMetadataFetched = FALSE
  /\ scan = [i \in ScanIds |-> BlankScan]
  /\ task = [i \in ScanIds |-> [s \in Symbols |-> BlankTask]]
  /\ currentScanPredictions = [s \in Symbols |-> NoPrediction]
  /\ predictionTable = [i \in ScanIds |-> [s \in Symbols |-> "absent"]]
  /\ tradeTable = {}
  /\ lastTick = "none"
  /\ targetMoves = 0
  /\ plan = BlankPlan
  /\ prediction = NoRow

InitCommon == InitIdle /\ independentPosition = <<>>

\* The configuration of the independent trader (process.env).
Config(enabled, leverage) ==
  [ENABLED |-> enabled, LEVERAGE |-> leverage,
   USE_TIME_BASED_EXIT |-> USE_TIME_BASED_EXIT]

\* ------------------------------------------------------------ environment
\* Time passes: d minutes go by.
AdvanceBy(d) ==
  /\ now + d <= MaxNow
  /\ now' = now + d
  /\ UNCHANGED <<mutexVars, failedOrders, assetMetadataFetched, scan, task,
                 venueVars, storeVars, currentScanPredictions, cfgVars, lastTick>>

Advance == AdvanceBy(1)

\* The time after which a running scan is considered hung goes by.
AdvanceTimeout == AdvanceBy(SCAN_TIMEOUT_MS)

\* The target account changes its book.
TargetMove ==
  /\ targetMoves < MaxTargetMoves
  /\ \E b \in TargetBooks : b # targetPositions /\ targetPositions' = b
  /\ targetMoves' = targetMoves + 1
  /\ UNCHANGED <<now, mutexVars, failedOrders, assetMetadataFetched, scan, task,
                 ourPositions, ourEquity, storeVars, currentScanPredictions,
                 cfgVars, lastTick>>

\* ------------------------------------------------------------ orchestrator
NextScanId(i) ==
  /\ scan[i].pc = "idle"
  /\ \A j \in ScanIds : j < i => scan[j].pc # "idle"

\* A skipped tick that restarts the clock of the running scan.
TickSkipRestartsClock ==
  /\ isScanRunning
  /\ now - lastScanStartTime < SCAN_TIMEOUT_MS
  /\ lastTick' = "skipped"
  /\ lastScanStartTime' = now
  /\ UNCHANGED <<now, isScanRunning, failedOrders, assetMetadataFetched, scan, task,
                 venueVars, storeVars, currentScanPredictions, cfgVars>>

\* scanTraders, the tick is skipped: a scan is running and has not timed out.
TickSkip ==
  /\ isScanRunning
  /\ now - lastScanStartTime < SCAN_TIMEOUT_MS
  /\ lastTick' = "skipped"
  /\ UNCHANGED <<now, mutexVars, failedOrders, assetMetadataFetched, scan, task,
                 venueVars, storeVars, currentScanPredictions, cfgVars>>

\* scanTraders, the tick starts a scan: the mutex is taken (after a force
\* reset when the previous scan is considered hung) and _doScan runs up to
\* its first await, which includes the clean-up of expired cool-downs.
TickStart(i) ==
  /\ NextScanId(i)
  /\ ~isScanRunning \/ now - lastScanStartTime >= SCAN_TIMEOUT_MS
  /\ isScanRunning' = TRUE
  /\ lastScanStartTime' = now
  /\ lastTick' = IF isScanRunning THEN "reset" ELSE "started"
  /\ failedOrders' = [s \in Symbols |->
        IF failedOrders[s] # 0 /\ now - failedOrders[s] > FAILED_ORDER_COOLDOWN_MS
        THEN 0 ELSE failedOrders[s]]
  /\ scan' = [scan EXCEPT ![i] = [BlankScan EXCEPT !.pc = "health", !.scanStartTime = now]]
  /\ UNCHANGED <<now, assetMetadataFetched, task, venueVars, storeVars,
                 currentScanPredictions, cfgVars>>

\* Leaving _doScan: the finally clause of scanTraders clears the mutex.
Exited(i) == [scan EXCEPT ![i].pc = "exited"]

\* A health probe whose abort returns without the mutex being cleared.
ScanHealthKeepsMutex(i) ==
  /\ scan[i].pc = "health"
  /\ \E probe \in BOOLEAN, reconnect \in BOOLEAN :
       scan' = IF probe \/ reconnect THEN [scan EXCEPT ![i].pc = "fetch"] ELSE Exited(i)
  /\ UNCHANGED <<now, mutexVars, failedOrders, assetMetadataFetched, task,
                 venueVars, storeVars, currentScanPredictions, cfgVars, lastTick>>

\* Store health probe with one disconnect + reconnect.
ScanHealth(i) ==
  /\ scan[i].pc = "health"
  /\ \E probe \in BOOLEAN, reconnect \in BOOLEAN :
       IF probe \/ reconnect
       THEN /\ scan' = [scan EXCEPT ![i].pc = "fetch"]
            /\ UNCHANGED isScanRunning
       ELSE /\ scan' = Exited(i)
            /\ isScanRunning' = FALSE
  /\ UNCHANGED <<now, lastScanStartTime, failedOrders, assetMetadataFetched, task,
                 venueVars, storeVars, currentScanPredictions, cfgVars, lastTick>>

\* The symbols with a non-zero position (the szi !== '0' filter).
HeldSymbols(book) == {s \in Symbols : book[s].present /\ book[s].szi # 0}
Universe(target, ours, enabled) ==
  HeldSymbols(target) \cup HeldSymbols(ours) \cup (IF enabled THEN WHITELIST ELSE {})
AllSymbols(target, ours, enabled) ==
  SelectSeq(SymbolOrder, LAMBDA s : s \in Universe(target, ours, enabled))

\* A state fetch whose failure returns without the mutex being cleared.
ScanFetchKeepsMutex(i) ==
  /\ scan[i].pc = "fetch"
  /\ \E metaOk \in BOOLEAN, fetchOk \in BOOLEAN :
       /\ assetMetadataFetched' = (assetMetadataFetched \/ metaOk)
       /\ scan' = IF fetchOk
                  THEN [scan EXCEPT
                          ![i].pc = "predict",
                          ![i].targetPositions = targetPositions,
                          ![i].ourPositions = ourPositions,
                          ![i].scaleFactor =
                             ScaleFactor(getPortfolio(ourPositions, ourEquity),
                                         [portfolio |-> TargetEquity, available |-> 0]),
                          ![i].allSymbols =
                             AllSymbols(targetPositions, ourPositions, CONFIG.ENABLED)]
                  ELSE Exited(i)
  /\ UNCHANGED <<now, mutexVars, failedOrders, task, venueVars, storeVars,
                 currentScanPredictions, cfgVars, lastTick>>

\* Metadata fetch and the state fetch (portfolios, positions, mids).
ScanFetch(i) ==
  /\ scan[i].pc = "fetch"
  /\ \E metaOk \in BOOLEAN, fetchOk \in BOOLEAN :
       /\ assetMetadataFetched' = (assetMetadataFetched \/ metaOk)
       /\ IF fetchOk
          THEN /\ scan' = [scan EXCEPT
                     ![i].pc = "predict",
                     ![i].targetPositions = targetPositions,
                     ![i].ourPositions = ourPositions,
                     ![i].scaleFactor =
                        ScaleFactor(getPortfolio(ourPositions, ourEquity),
                                    [portfolio |-> TargetEquity, available |-> 0]),
                     ![i].allSymbols =
                        AllSymbols(targetPositions, ourPositions, CONFIG.ENABLED)]
               /\ UNCHANGED isScanRunning
          ELSE /\ scan' = Exited(i)
               /\ isScanRunning' = FALSE
  /\ UNCHANGED <<now, lastScanStartTime, failedOrders, task, venueVars, storeVars,
                 currentScanPredictions, cfgVars, lastTick>>

SeqToSet(q) == {q[k] : k \in 1..Len(q)}

\* PredictionLogger.logPredictions: the cache is cleared, then every symbol
\* with a mid price gets a row and a cache entry.
ScanPredict(i) ==
  /\ scan[i].pc = "predict"
  /\ \E ok \in BOOLEAN, strong \in SUBSET (hotSymbols \cap SeqToSet(scan[i].allSymbols)) :
       LET scored == IF ok THEN {s \in SeqToSet(scan[i].allSymbols) : allMarkets[s] # 0}
                     ELSE {}
       IN /\ currentScanPredictions' = [s \in Symbols |->
               IF s \in scored
               THEN [id |-> i, score |-> IF s \in strong THEN 95 ELSE 50,
                     direction |-> IF s \in strong THEN 1 ELSE 0]
               ELSE NoPrediction]
          /\ predictionTable' = [predictionTable EXCEPT ![i] =
               [s \in Symbols |-> IF s \in scored THEN "unset" ELSE "absent"]]
  /\ scan' = [scan EXCEPT ![i].pc = IF CONFIG.ENABLED THEN "signals" ELSE "batch"]
  /\ UNCHANGED <<now, mutexVars, failedOrders, assetMetadataFetched, task, venueVars,
                 independentPosition, tradeTable, cfgVars, lastTick>>

\* ------------------------------------------------------------ syncPosition
\* syncPosition / executePositionSync run synchronously up to their first
\* await.  Spawn gives the task as it stands at that await.
Planned(delta, action, failed, t) ==
  IF action \in {"none", "skip"} THEN [action |-> action, pc |-> "done"]
  ELSE [action |-> action, pc |-> FirstAwait(delta, action, failed, t)]

ClassifyDelta(delta, enabled, indep) ==
  Classify(delta.targetSide, delta.ourSide, delta.targetSizeForUs, delta.ourSize,
           enabled, indep)

Spawn(sc, sym, enabled, fetched, failed, t) ==
  LET delta == PositionDelta(sym, sc.targetPositions[sym], sc.ourPositions[sym],
                             sc.scaleFactor)
      tickerConfig == getTickerConfig(sym, delta.targetLeverage, fetched)
      closeBranch == delta.targetSide = "none" /\ delta.ourSide # "none"
      sameBranch == delta.targetSide # "none" /\ delta.targetSide = delta.ourSide
      step ==
        IF ~tickerConfig.ok THEN [action |-> "none", pc |-> "done"]
        ELSE IF closeBranch /\ enabled THEN [action |-> "none", pc |-> "lookupClose"]
        ELSE IF sameBranch /\ enabled THEN [action |-> "none", pc |-> "lookupSame"]
        ELSE Planned(delta, ClassifyDelta(delta, enabled, NoIndependent), failed, t)
  IN [BlankTask EXCEPT !.pc = step.pc, !.action = step.action, !.delta = delta]

BatchOf(sc) ==
  {sc.allSymbols[k] : k \in {j \in 1..Len(sc.allSymbols) :
                                j > sc.batchAt /\ j <= sc.batchAt + BATCH_SIZE}}

\* The batch loop of _doScan: the syncPosition calls of one batch are started.
BatchStart(i) ==
  /\ scan[i].pc = "batch"
  /\ task' = [task EXCEPT ![i] = [s \in Symbols |->
        IF s \in BatchOf(scan[i])
        THEN Spawn(scan[i], s, CONFIG.ENABLED, assetMetadataFetched, failedOrders, now)
        ELSE task[i][s]]]
  /\ scan' = [scan EXCEPT ![i].pc = "join"]
  /\ UNCHANGED <<now, mutexVars, failedOrders, assetMetadataFetched, venueVars,
                 storeVars, currentScanPredictions, cfgVars, lastTick>>

\* Promise.all over the batch: every call has settled or hit its 30 s timeout.
BatchJoin(i) ==
  /\ scan[i].pc = "join"
  /\ \A s \in BatchOf(scan[i]) : task[i][s].pc = "done" \/ task[i][s].abandoned
  /\ scan' = [scan EXCEPT
        ![i].batchAt = scan[i].batchAt + BATCH_SIZE,
        ![i].pc = IF scan[i].batchAt + BATCH_SIZE < Len(scan[i].allSymbols)
                  THEN "batch" ELSE "finalize"]
  /\ UNCHANGED <<now, mutexVars, failedOrders, assetMetadataFetched, task, venueVars,
                 storeVars, currentScanPredictions, cfgVars, lastTick>>

\* The 30 s timer of Promise.race wins: the scan stops waiting for the call,
\* the call itself keeps running.
TaskTimeout(i, s) ==
  /\ scan[i].pc = "join"
  /\ task[i][s].pc \notin {"idle", "done"}
  /\ ~task[i][s].abandoned
  /\ task' = [task EXCEPT ![i][s].abandoned = TRUE]
  /\ UNCHANGED <<now, mutexVars, failedOrders, assetMetadataFetched, scan, venueVars,
                 storeVars, currentScanPredictions, cfgVars, lastTick>>

\* await hasIndependentPosition in the close branch and the same-side branch.
TaskLookup(i, s) ==
  /\ task[i][s].pc \in {"lookupClose", "lookupSame"}
  /\ \E indep \in hasIndependentPosition(independentPosition, s) :
       LET tk == task[i][s]
           step == Planned(tk.delta, ClassifyDelta(tk.delta, CONFIG.ENABLED, indep),
                           failedOrders, now)
       IN task' = [task EXCEPT ![i][s] =
            IF tk.pc = "lookupSame" /\ indep.exists /\ ~indep.confirmed
            THEN [tk EXCEPT !.pc = "confirm", !.indepStatus = indep]
            ELSE [tk EXCEPT !.action = step.action, !.pc = step.pc,
                            !.indepStatus = indep]]
  /\ UNCHANGED <<now, mutexVars, failedOrders, assetMetadataFetched, scan, venueVars,
                 storeVars, currentScanPredictions, cfgVars, lastTick>>

\* await confirmPosition, then the size check of the same-side branch.
TaskConfirm(i, s) ==
  /\ task[i][s].pc = "confirm"
  /\ independentPosition' = confirmPosition(independentPosition, s)
  /\ LET tk == task[i][s]
         step == Planned(tk.delta, ClassifyDelta(tk.delta, CONFIG.ENABLED, NoIndependent),
                         failedOrders, now)
     IN task' = [task EXCEPT ![i][s].action = step.action, ![i][s].pc = step.pc]
  /\ UNCHANGED <<now, mutexVars, failedOrders, assetMetadataFetched, scan, venueVars,
                 predictionTable, tradeTable, currentScanPredictions, cfgVars, lastTick>>

\* ------------------------------------------------------ executePositionSync
\* An executePositionSync without its catch block: the call ends raised.
Uncaught(tk) == [tk EXCEPT !.pc = "raised"]

\* The catch block: a failed open or flip starts the cool-down.
Caught(tk) ==
  [tk EXCEPT !.pc = "done",
             !.events = IF tk.action \in {"open", "flip"}
                        THEN Append(tk.events, "coolSet") ELSE tk.events]
FailedAfter(failed, tk, t) ==
  IF tk.action \in {"open", "flip"} THEN [failed EXCEPT ![tk.delta.symbol] = t] ELSE failed

\* requiredMargin * 1.2 <= available, as an exact comparison.
Affordable(delta, available) ==
  PositionValueUSD(delta) * 12 <= available * 10 * delta.targetLeverage

\* A switch whose flip case starts with the open.
OpenFirst(action) == "openLeg"

\* The first leg of the switch for open and flip: a flip closes first.
FirstLeg(action) == IF action = "flip" THEN "closeLeg" ELSE "openLeg"

\* await getPortfolio and the free-margin check of open and flip.
TaskMargin(i, s) ==
  /\ task[i][s].pc = "margin"
  /\ LET tk == task[i][s]
         ourPortfolio == getPortfolio(ourPositions, ourEquity)
     IN \/ /\ task' = [task EXCEPT ![i][s] = Caught(tk)]
           /\ failedOrders' = FailedAfter(failedOrders, tk, now)
        \/ /\ task' = [task EXCEPT ![i][s].pc =
                 IF ~Affordable(tk.delta, ourPortfolio.available) THEN "done"
                 ELSE FirstLeg(tk.action)]
           /\ UNCHANGED failedOrders
  /\ UNCHANGED <<now, mutexVars, assetMetadataFetched, scan, venueVars,
                 storeVars, currentScanPredictions, cfgVars, lastTick>>

\* await marketClosePosition: the close, the close leg of a flip, or the
\* reduction of an adjust.
TaskCloseLeg(i, s) ==
  /\ task[i][s].pc = "closeLeg"
  /\ LET tk == task[i][s]
         d == tk.delta
         pn == IF tk.action = "adjust" THEN Abs(d.targetSizeForUs - d.ourSize) ELSE 1
         pd == IF tk.action = "adjust" THEN d.ourSize ELSE 1
     IN \E out \in marketClosePosition(ourPositions, s, d.ourSide = "long", pn, pd) :
          /\ ourPositions' = out.book
          /\ IF out.threw
             THEN /\ task' = [task EXCEPT ![i][s] = Caught(tk)]
                  /\ failedOrders' = FailedAfter(failedOrders, tk, now)
             ELSE /\ task' = [task EXCEPT ![i][s] =
                        [tk EXCEPT !.pc = IF tk.action = "flip" THEN "openLeg" ELSE "record",
                                   !.events = IF out.requested
                                              THEN Append(tk.events, "closeReq")
                                              ELSE Append(tk.events, "closeCall")]]
                  /\ UNCHANGED failedOrders
  /\ UNCHANGED <<now, mutexVars, assetMetadataFetched, scan, targetPositions, ourEquity,
                 targetMoves, storeVars, currentScanPredictions, cfgVars, lastTick>>

\* await openCopyPosition: the open, the open leg of a flip, or the addition
\* of an adjust.
TaskOpenLeg(i, s) ==
  /\ task[i][s].pc = "openLeg"
  /\ LET tk == task[i][s]
         d == tk.delta
         size == IF tk.action = "adjust" THEN d.targetSizeForUs - d.ourSize
                 ELSE d.targetSizeForUs
     IN \E out \in openCopyPosition(ourPositions, ourEquity, s, d.targetSide = "long",
                                    size, d.targetLeverage, tk.action = "adjust") :
          LET ev == IF out.requested THEN Append(tk.events, "openReq")
                    ELSE Append(tk.events, "openCall")
          IN /\ ourPositions' = out.book
             /\ IF out.threw
                THEN /\ task' = [task EXCEPT ![i][s] = Caught([tk EXCEPT !.events = ev])]
                     /\ failedOrders' = FailedAfter(failedOrders, tk, now)
                ELSE /\ task' = [task EXCEPT ![i][s] = [tk EXCEPT !.pc = "record", !.events = ev]]
                     /\ UNCHANGED failedOrders
  /\ UNCHANGED <<now, mutexVars, assetMetadataFetched, scan, targetPositions, ourEquity,
                 targetMoves, storeVars, currentScanPredictions, cfgVars, lastTick>>

ActionName(tk) ==
  IF tk.action # "adjust" THEN tk.action
  ELSE IF tk.delta.targetSizeForUs - tk.delta.ourSize > 0 THEN "increase" ELSE "decrease"

\* After the order: logCopyTrade, tradedSymbols.add, logCopyAction.
TaskRecord(i, s) ==
  /\ task[i][s].pc = "record"
  /\ LET tk == task[i][s]
         cached == currentScanPredictions[s]
     IN /\ tradeTable' = tradeTable \cup {<<i, s, ActionName(tk)>>}
        /\ scan' = [scan EXCEPT ![i].tradedSymbols = @ \cup {s}]
        /\ predictionTable' =
             IF cached.id = 0 THEN predictionTable
             ELSE [predictionTable EXCEPT ![cached.id][s] = ActionName(tk)]
        /\ task' = [task EXCEPT ![i][s] =
             [tk EXCEPT !.pc = IF tk.action \in {"open", "flip"} THEN "settle" ELSE "done",
                        !.events = tk.events \o <<"logCopyTrade", "tradedAdd", "logCopyAction">>]]
  /\ UNCHANGED <<now, mutexVars, failedOrders, assetMetadataFetched, venueVars,
                 independentPosition, currentScanPredictions, cfgVars, lastTick>>

\* After the 3 s settle wait of open and flip: the cool-down entry is cleared.
TaskSettle(i, s) ==
  /\ task[i][s].pc = "settle"
  /\ failedOrders' = [failedOrders EXCEPT ![s] = 0]
  /\ task' = [task EXCEPT ![i][s].pc = "done",
                          ![i][s].events = Append(@, "coolClear")]
  /\ UNCHANGED <<now, mutexVars, assetMetadataFetched, scan, venueVars,
                 storeVars, currentScanPredictions, cfgVars, lastTick>>

\* PredictionLogger.finalizeScanPredictions, then the end of _doScan (the
\* reference to the undefined syncPromises raises and is caught at line 276).
ScanFinalize(i) ==
  /\ scan[i].pc = "finalize"
  /\ predictionTable' = [j \in ScanIds |-> [s \in Symbols |->
        IF currentScanPredictions[s].id = j /\ s \notin scan[i].tradedSymbols
        THEN "none" ELSE predictionTable[j][s]]]
  /\ scan' = Exited(i)
  /\ isScanRunning' = FALSE
  /\ UNCHANGED <<now, lastScanStartTime, failedOrders, assetMetadataFetched, task,
                 venueVars, independentPosition, tradeTable, currentScanPredictions,
                 cfgVars, lastTick>>

\* ------------------------------------------------------ independent trader
RECURSIVE SumSizeUsd(_, _)
SumSizeUsd(table, K) ==
  IF K = {} THEN 0
  ELSE LET k == CHOOSE x \in K : TRUE
       IN table[k].sizeUsd + SumSizeUsd(table, K \ {k})
\* IndependentTrader.getCurrentAllocation
getCurrentAllocation(table) == SumSizeUsd(table, AllActiveRows(table))

\* The eligibility filter of processSignals, in the order of the cache.
Eligible(order, predictions, ourSymbols, independentSymbols, targetSymbols) ==
  SelectSeq(order, LAMBDA s :
    /\ predictions[s].id # 0
    /\ predictions[s].score >= MIN_SCORE
    /\ predictions[s].direction = 1
    /\ s \in WHITELIST
    /\ s \notin ourSymbols
    /\ s \notin independentSymbols
    /\ s \notin targetSymbols)

\* processSignals up to its loop: the reads and the filter.
SignalsRead(i) ==
  /\ scan[i].pc = "signals"
  /\ LET openIndependent == AllActiveRows(independentPosition)
         independentSymbols == {independentPosition[k].symbol : k \in openIndependent}
         portfolio == getPortfolio(ourPositions, ourEquity)
         eligible == Eligible(SymbolOrder, currentScanPredictions,
                              HeldSymbols(ourPositions), independentSymbols,
                              HeldSymbols(scan[i].targetPositions))
         nothing == \/ \A s \in Symbols : currentScanPredictions[s].id = 0
                    \/ Cardinality(openIndependent) >= MAX_POSITIONS
                    \/ eligible = <<>>
     IN \/ scan' = [scan EXCEPT ![i].pc = "manage"]
        \/ /\ ~nothing
           /\ scan' = [scan EXCEPT
                 ![i].pc = "signalsLoop",
                 ![i].signals =
                    [eligible |-> eligible,
                     openCount |-> Cardinality(openIndependent),
                     currentAllocation |-> getCurrentAllocation(independentPosition),
                     maxAllocationUsd |->
                        (portfolio.portfolio * MAX_ALLOCATION_PCT[1]) \div MAX_ALLOCATION_PCT[2],
                     available |-> portfolio.available]]
  /\ UNCHANGED <<now, mutexVars, failedOrders, assetMetadataFetched, task, venueVars,
                 storeVars, currentScanPredictions, cfgVars, lastTick>>

\* positionSizeUsd of one loop iteration.
PositionSizeUsd(sig) ==
  Min((sig.maxAllocationUsd - sig.currentAllocation) \div (MAX_POSITIONS - sig.openCount),
      sig.maxAllocationUsd \div MAX_POSITIONS)

\* The row written by openPosition, with CONFIG.USE_TIME_BASED_EXIT as
\* timeBased.
NewRow(timeBased, sym, marginUsd, leverage, t) ==
  [symbol |-> sym, side |-> "long", entryPrice |-> allMarkets[sym],
   size |-> (marginUsd * leverage) \div allMarkets[sym],
   sizeUsd |-> marginUsd * leverage, leverage |-> leverage,
   tpPrice |-> IF timeBased THEN 0
               ELSE (allMarkets[sym] * (TP_PCT[2] + TP_PCT[1])) \div TP_PCT[2],
   slPrice |-> IF timeBased THEN 0
               ELSE (allMarkets[sym] * (SL_PCT[2] - SL_PCT[1])) \div SL_PCT[2],
   timeoutAt |-> t + HOLD_HOURS * 60, status |-> "open", confirmedByTarget |-> FALSE,
   exitPrice |-> 0, exitReason |-> "", closedAt |-> 0, realizedPnl |-> 0,
   realizedPnlPct |-> 0]

\* One iteration of the loop of processSignals, openPosition included.
SignalsOpen(i) ==
  /\ scan[i].pc = "signalsLoop"
  /\ LET sig == scan[i].signals
         sym == Head(sig.eligible)
         positionSizeUsd == PositionSizeUsd(sig)
         leverage == Min(CONFIG.LEVERAGE, maxLeverage[sym])
         size == (positionSizeUsd * leverage) \div allMarkets[sym]
         rest == Tail(sig.eligible)
         after(q, n) == [scan EXCEPT ![i].signals.eligible = q,
                                     ![i].signals.openCount = n,
                                     ![i].pc = IF q = <<>> THEN "manage" ELSE "signalsLoop"]
     IN IF sig.openCount + 1 > MAX_POSITIONS
        THEN scan' = after(<<>>, sig.openCount) /\ UNCHANGED <<ourPositions, independentPosition>>
        ELSE IF positionSizeUsd < 10
        THEN scan' = after(rest, sig.openCount) /\ UNCHANGED <<ourPositions, independentPosition>>
        ELSE IF positionSizeUsd * 100 > sig.available * 95 * CONFIG.LEVERAGE
        THEN scan' = after(<<>>, sig.openCount) /\ UNCHANGED <<ourPositions, independentPosition>>
        ELSE /\ scan' = after(rest, sig.openCount + 1)
             /\ IF ~assetMetadataFetched
                THEN UNCHANGED <<ourPositions, independentPosition>>
                ELSE \E out \in openCopyPosition(ourPositions, ourEquity, sym, TRUE,
                                                 size, leverage, FALSE) :
                       /\ ourPositions' = out.book
                       /\ independentPosition' =
                            IF out.threw THEN independentPosition
                            ELSE Append(independentPosition,
                                        NewRow(CONFIG.USE_TIME_BASED_EXIT, sym,
                                               positionSizeUsd, leverage, now))
  /\ UNCHANGED <<now, mutexVars, failedOrders, assetMetadataFetched, task,
                 targetPositions, ourEquity, targetMoves, predictionTable, tradeTable,
                 currentScanPredictions, cfgVars, lastTick>>

\* managePositions up to its loop: the rows that are open or confirmed, as
\* read by findMany (each with its id).
RECURSIVE SetToSeq(_)
SetToSeq(K) ==
  IF K = {} THEN <<>>
  ELSE LET k == CHOOSE x \in K : \A y \in K : x <= y
       IN <<k>> \o SetToSeq(K \ {k})
ManageRead(i) ==
  /\ scan[i].pc = "manage"
  /\ LET ids == SetToSeq(AllActiveRows(independentPosition))
     IN \/ scan' = [scan EXCEPT ![i].pc = "batch"]
        \/ /\ ids # <<>>
           /\ scan' = [scan EXCEPT
                 ![i].pc = "manageLoop",
                 ![i].openPositions =
                    [k \in 1..Len(ids) |-> [id |-> ids[k], pos |-> independentPosition[ids[k]]]]]
  /\ UNCHANGED <<now, mutexVars, failedOrders, assetMetadataFetched, task, venueVars,
                 storeVars, currentScanPredictions, cfgVars, lastTick>>

\* Number(allMarkets[symbol]) as managePositions reads it: 0 stands for a
\* symbol the venue lists no mid price for.
MidPrice(sym) == IF sym \in DOMAIN allMarkets THEN allMarkets[sym] ELSE 0

\* A managePositions that tests the timeout before it looks at the target.
ManageDecisionTimeoutFirst(pos, targetPosition, currentPrice, t) ==
  IF currentPrice = 0 THEN "keep"
  ELSE IF t >= pos.timeoutAt THEN "timeout"
  ELSE IF targetPosition.present /\ targetPosition.szi # 0
  THEN IF positionSide(targetPosition) = pos.side
       THEN IF ~pos.confirmedByTarget THEN "confirm" ELSE "keep"
       ELSE "target_opposite"
  ELSE IF ~CONFIG.USE_TIME_BASED_EXIT /\ currentPrice >= pos.tpPrice THEN "tp"
  ELSE IF ~CONFIG.USE_TIME_BASED_EXIT /\ currentPrice <= pos.slPrice THEN "sl"
  ELSE "keep"

\* The decision of one loop iteration of managePositions for the row pos:
\* "confirm", "keep", or the exit reason of closePosition.
ManageDecision(pos, targetPosition, currentPrice, t) ==
  IF currentPrice = 0 THEN "keep"
  ELSE IF targetPosition.present /\ targetPosition.szi # 0
  THEN IF positionSide(targetPosition) = pos.side
       THEN IF ~pos.confirmedByTarget THEN "confirm" ELSE "keep"
       ELSE "target_opposite"
  ELSE IF ~CONFIG.USE_TIME_BASED_EXIT /\ currentPrice >= pos.tpPrice THEN "tp"
  ELSE IF ~CONFIG.USE_TIME_BASED_EXIT /\ currentPrice <= pos.slPrice THEN "sl"
  ELSE IF t >= pos.timeoutAt THEN "timeout"
  ELSE "keep"

\* The update written by closePosition (one prisma update by id).
ClosedRow(row, pos, exitPrice, reason, t) ==
  [row EXCEPT !.status = "closed", !.exitPrice = exitPrice, !.exitReason = reason,
              !.closedAt = t,
              !.realizedPnl = (exitPrice - pos.entryPrice) * pos.size,
              !.realizedPnlPct = ((exitPrice - pos.entryPrice) * 100) \div pos.entryPrice]

\* One iteration of the loop of managePositions, closePosition included.
ManageStep(i) ==
  /\ scan[i].pc = "manageLoop"
  /\ LET head == Head(scan[i].openPositions)
         pos == head.pos
         targetPosition == IF pos.symbol \in Symbols
                           THEN scan[i].targetPositions[pos.symbol] ELSE NoPosition
         decision == ManageDecision(pos, targetPosition, MidPrice(pos.symbol), now)
         rest == Tail(scan[i].openPositions)
     IN /\ scan' = [scan EXCEPT ![i].openPositions = rest,
                                ![i].pc = IF rest = <<>> THEN "batch" ELSE "manageLoop"]
        /\ IF decision = "keep"
           THEN UNCHANGED <<ourPositions, independentPosition>>
           ELSE IF decision = "confirm"
           THEN /\ independentPosition' =
                     [independentPosition EXCEPT ![head.id].confirmedByTarget = TRUE,
                                                 ![head.id].status = "confirmed"]
                /\ UNCHANGED ourPositions
           ELSE IF ~assetMetadataFetched
           THEN UNCHANGED <<ourPositions, independentPosition>>
           ELSE \E out \in marketClosePosition(ourPositions, pos.symbol,
                                               pos.side = "long", 1, 1) :
                  /\ ourPositions' = out.book
                  /\ independentPosition' =
                       IF out.threw THEN independentPosition
                       ELSE [independentPosition EXCEPT ![head.id] =
                               ClosedRow(@, pos, MidPrice(pos.symbol), decision, now)]
  /\ UNCHANGED <<now, mutexVars, failedOrders, assetMetadataFetched, task,
                 targetPositions, ourEquity, targetMoves, predictionTable, tradeTable,
                 currentScanPredictions, cfgVars, lastTick>>

\* The hold time of an independent position passes.
AdvanceHold ==
  /\ now < MaxNow
  /\ now' = now + HOLD_HOURS * 60
  /\ UNCHANGED <<mutexVars, failedOrders, assetMetadataFetched, scan, task,
                 venueVars, storeVars, currentScanPredictions, cfgVars, lastTick>>

\* ------------------------------------------------------------ specification
Next ==
  \/ Advance
  \/ AdvanceHold
  \/ TargetMove
  \/ TickSkip
  \/ \E i \in ScanIds : TickStart(i)
  \/ \E i \in ScanIds : ScanHealth(i)
  \/ \E i \in ScanIds : ScanFetch(i)
  \/ \E i \in ScanIds : ScanPredict(i)
  \/ \E i \in ScanIds : SignalsRead(i)
  \/ \E i \in ScanIds : SignalsOpen(i)
  \/ \E i \in ScanIds : ManageRead(i)
  \/ \E i \in ScanIds : ManageStep(i)
  \/ \E i \in ScanIds : BatchStart(i)
  \/ \E i \in ScanIds : BatchJoin(i)
  \/ \E i \in ScanIds : ScanFinalize(i)
  \/ \E i \in ScanIds, s \in Symbols : TaskTimeout(i, s)
  \/ \E i \in ScanIds, s \in Symbols : TaskLookup(i, s)
  \/ \E i \in ScanIds, s \in Symbols : TaskConfirm(i, s)
  \/ \E i \in ScanIds, s \in Symbols : TaskMargin(i, s)
  \/ \E i \in ScanIds, s \in Symbols : TaskCloseLeg(i, s)
  \/ \E i \in ScanIds, s \in Symbols : TaskOpenLeg(i, s)
  \/ \E i \in ScanIds, s \in Symbols : TaskRecord(i, s)
  \/ \E i \in ScanIds, s \in Symbols : TaskSettle(i, s)

\* --- The orchestrator alone: the operator's book already matches the
\* target's (both empty, or the same side with sizes within the threshold),
\* so every syncPosition returns at once.
MatchedBooks ==
  {<<NoBook, NoBook>>}
  \cup {<<[s \in Symbols |-> IF s = "SOL" THEN LongPos(68, 5) ELSE NoPosition],
          [s \in Symbols |-> IF s = "SOL" THEN LongPos(n, 5) ELSE NoPosition]>> :
          n \in {68, 72}}

InitScan ==
  /\ InitCommon
  /\ \E b \in MatchedBooks : targetPositions = b[1] /\ ourPositions = b[2]
  /\ ourEquity = OurEquity
  /\ CONFIG = Config(FALSE, LEVERAGE)
  /\ hotSymbols = {}

NextScan ==
  \/ Advance
  \/ TickSkip
  \/ \E i \in ScanIds : TickStart(i)
  \/ \E i \in ScanIds : ScanHealth(i)
  \/ \E i \in ScanIds : ScanFetch(i)
  \/ \E i \in ScanIds : ScanPredict(i)
  \/ \E i \in ScanIds : BatchStart(i)
  \/ \E i \in ScanIds : BatchJoin(i)
  \/ \E i \in ScanIds : ScanFinalize(i)

SpecScan == InitScan /\ [][NextScan]_vars

\* ------------------------------------------------------------------ claims
\* The scan bodies (_doScan) that are executing.
Running == {i \in ScanIds : scan[i].pc \notin {"idle", "exited"}}

\* C1: single-flight -- for any sequence of ticks, those after SCAN_TIMEOUT
\* included, at most one scan body is executing at any time.
C1_SingleFlight == Cardinality(Running) <= 1

\* --- The classification of syncPosition as a function of its inputs: the
\* inputs are drawn in the initial state, PlanClassify applies the planner.
PlanPositions ==
  {NoPosition} \cup {LongPos(n, 5) : n \in 8..MaxPlanSize}
               \cup {ShortPos(n, 5) : n \in 8..MaxPlanSize}
IndependentAnswers ==
  {[exists |-> FALSE, confirmed |-> FALSE], [exists |-> TRUE, confirmed |-> FALSE],
   [exists |-> TRUE, confirmed |-> TRUE]}

InitPlan ==
  /\ now = 1
  /\ isScanRunning = FALSE
  /\ lastScanStartTime = 0
  /\ failedOrders = [s \in Symbols |-> 0]
  /\ assetMetadataFetched = FALSE
  /\ scan = [i \in ScanIds |-> BlankScan]
  /\ task = [i \in ScanIds |-> [s \in Symbols |-> BlankTask]]
  /\ independentPosition = <<>>
  /\ currentScanPredictions = [s \in Symbols |-> NoPrediction]
  /\ predictionTable = [i \in ScanIds |-> [s \in Symbols |-> "absent"]]
  /\ tradeTable = {}
  /\ lastTick = "none"
  /\ targetMoves = 0
  /\ targetPositions = NoBook
  /\ ourPositions = NoBook
  /\ ourEquity = OurEquity
  /\ CONFIG = Config(FALSE, LEVERAGE)
  /\ hotSymbols = {}
  /\ \E t \in PlanPositions, o \in PlanPositions, e \in BOOLEAN,
        a \in IndependentAnswers :
       plan = [BlankPlan EXCEPT !.targetPosition = t, !.ourPosition = o,
                                !.enabled = e, !.indepStatus = a]
  /\ prediction = NoRow

\* "Determine required action" of syncPosition on the drawn inputs.
PlanClassify ==
  /\ plan.action = "pending"
  /\ plan' = [plan EXCEPT !.action =
       ClassifyDelta(PositionDelta("SOL", plan.targetPosition, plan.ourPosition, <<1, 1>>),
                     plan.enabled, plan.indepStatus)]
  /\ UNCHANGED <<now, mutexVars, failedOrders, assetMetadataFetched, scan, task,
                 venueVars, storeVars, currentScanPredictions, CONFIG, hotSymbols,
                 lastTick, prediction>>

NextPlan == PlanClassify

SpecPlan == InitPlan /\ [][NextPlan]_vars

\* The table of actions: unconfirmed tells whether the close row is replaced
\* by the skip row.
ActionTable(targetSide, ourSide, scaledTargetSize, ourSize, unconfirmed) ==
  IF targetSide = "none" /\ ourSide = "none" THEN "none"
  ELSE IF targetSide = "none" THEN (IF unconfirmed THEN "skip" ELSE "close")
  ELSE IF ourSide = "none" THEN "open"
  ELSE IF targetSide # ourSide THEN "flip"
  ELSE IF Abs(ourSize - scaledTargetSize) * POSITION_ADJUST_THRESHOLD[2]
            > scaledTargetSize * POSITION_ADJUST_THRESHOLD[1]
  THEN "adjust" ELSE "none"

PlanTable(unconfirmed) ==
  ActionTable(SideOf(plan.targetPosition), SideOf(plan.ourPosition),
              SizeOf(plan.targetPosition), SizeOf(plan.ourPosition), unconfirmed)

BooksMatch ==
  \A s \in Symbols :
    LET d == PositionDelta(s, targetPositions[s], ourPositions[s],
                           ScaleFactor(getPortfolio(ourPositions, ourEquity),
                                       [portfolio |-> TargetEquity, available |-> 0]))
    IN /\ d.targetSide = d.ourSide
       /\ ~NeedsAdjust(d.ourSize, d.targetSizeForUs)

InitCopy ==
  /\ InitCommon
  /\ targetPositions \in TargetBooks
  /\ ourPositions \in InitialBooks
  /\ ourEquity = OurEquity
  /\ CONFIG = Config(FALSE, LEVERAGE)
  /\ hotSymbols = {}

NextCopy ==
  \/ TickSkip
  \/ \E i \in ScanIds : TickStart(i)
  \/ \E i \in ScanIds : ScanHealth(i)
  \/ \E i \in ScanIds : ScanFetch(i)
  \/ \E i \in ScanIds : ScanPredict(i)
  \/ \E i \in ScanIds : BatchStart(i)
  \/ \E i \in ScanIds : BatchJoin(i)
  \/ \E i \in ScanIds : ScanFinalize(i)
  \/ \E i \in ScanIds, s \in Symbols : TaskMargin(i, s)
  \/ \E i \in ScanIds, s \in Symbols : TaskCloseLeg(i, s)
  \/ \E i \in ScanIds, s \in Symbols : TaskOpenLeg(i, s)
  \/ \E i \in ScanIds, s \in Symbols : TaskRecord(i, s)
  \/ \E i \in ScanIds, s \in Symbols : TaskSettle(i, s)

SpecCopy == InitCopy /\ [][NextCopy]_vars

\* Positions of the events of a task that are calls of marketClosePosition
\* (a request sent, or a return without one when no position is held on that
\* side) and calls of openCopyPosition.
CloseEvents == {"closeReq", "closeCall"}
OpenEvents == {"openReq", "openCall"}

\* C3: flip ordering -- in every flip, the call that closes the operator's
\* position has returned before the open leg is issued; no flip issues its
\* open leg first.
C3_FlipOrder ==
  \A i \in ScanIds, s \in Symbols :
    LET tk == task[i][s]
    IN tk.action = "flip" =>
         \A k \in 1..Len(tk.events) :
           tk.events[k] \in OpenEvents =>
             \E j \in 1..(k - 1) : tk.events[j] \in CloseEvents

\* A flip whose close request and open request have both been sent.
C3_Witness ==
  \E i \in ScanIds, s \in Symbols :
    /\ task[i][s].action = "flip"
    /\ Len(task[i][s].events) >= 2
    /\ task[i][s].events[1] = "closeReq"
    /\ task[i][s].events[2] = "openReq"

\* The step in which the open or flip of symbol s in scan i sends its order.
Dispatch(i, s) ==
  /\ task[i][s].action \in {"open", "flip"}
  /\ task[i][s].pc = "openLeg"
  /\ task'[i][s].events = Append(task[i][s].events, "openReq")

\* C5: affordability -- no open or flip is dispatched unless, at the moment
\* of dispatch, requiredMargin * 1.2 <= the operator's withdrawable balance,
\* for every interleaving of the calls of one batch.
C5_Affordable ==
  [][\A i \in ScanIds, s \in Symbols :
       Dispatch(i, s) =>
         Affordable(task[i][s].delta, getPortfolio(ourPositions, ourEquity).available)]_vars

\* --- The cool-down after a failed order: the target holds SOL, the operator
\* holds nothing or the other side; calls may outlive their 30 s timer and
\* time passes between the steps.
CoolBooks ==
  {<<[s \in Symbols |-> IF s = "SOL" THEN LongPos(68, 5) ELSE NoPosition], NoBook>>,
   <<[s \in Symbols |-> IF s = "SOL" THEN ShortPos(68, 5) ELSE NoPosition],
     [s \in Symbols |-> IF s = "SOL" THEN LongPos(68, 5) ELSE NoPosition]>>}

InitCool ==
  /\ InitCommon
  /\ \E b \in CoolBooks : targetPositions = b[1] /\ ourPositions = b[2]
  /\ ourEquity = OurEquity
  /\ CONFIG = Config(FALSE, LEVERAGE)
  /\ hotSymbols = {}

\* Time passes, within the first minutes after the start.
AdvanceCool == now < MaxCoolNow /\ Advance

NextCool ==
  \/ AdvanceCool
  \/ TickSkip
  \/ \E i \in ScanIds : TickStart(i)
  \/ \E i \in ScanIds : ScanHealth(i)
  \/ \E i \in ScanIds : ScanFetch(i)
  \/ \E i \in ScanIds : ScanPredict(i)
  \/ \E i \in ScanIds : BatchStart(i)
  \/ \E i \in ScanIds : BatchJoin(i)
  \/ \E i \in ScanIds : ScanFinalize(i)
  \/ \E i \in ScanIds, s \in Symbols : TaskTimeout(i, s)
  \/ \E i \in ScanIds, s \in Symbols : TaskMargin(i, s)
  \/ \E i \in ScanIds, s \in Symbols : TaskCloseLeg(i, s)
  \/ \E i \in ScanIds, s \in Symbols : TaskOpenLeg(i, s)
  \/ \E i \in ScanIds, s \in Symbols : TaskRecord(i, s)
  \/ \E i \in ScanIds, s \in Symbols : TaskSettle(i, s)

SpecCool == InitCool /\ [][NextCool]_vars

\* An open or flip of s raised at failedOrders[s], no open or flip of s has
\* succeeded since, and the present time is inside (t, t + cool-down).
Suppressed(s) ==
  /\ failedOrders[s] # 0
  /\ failedOrders[s] < now
  /\ now < failedOrders[s] + FAILED_ORDER_COOLDOWN_MS

\* C4: cool-down monotonicity -- after an open or flip of S raised at time t,
\* the copy planner sends no open or flip order for S at any time in
\* (t, t + 5 min), in the same scan or in any later scan.
C4_CoolDown ==
  [][\A i \in ScanIds, s \in Symbols : Dispatch(i, s) => ~Suppressed(s)]_vars

\* --- The independent trader at work: independent trading is enabled and
\* both whitelisted symbols can score.  The store is empty, or it holds one
\* open independent long on AAVE (opened before the process started) that
\* the operator's book carries; the target holds nothing or AAVE.
StoredRow(sym, timeoutAt, status) ==
  [NewRow(USE_TIME_BASED_EXIT, sym, 10, LEVERAGE, timeoutAt - HOLD_HOURS * 60) EXCEPT
     !.status = status, !.confirmedByTarget = (status = "confirmed")]
IndependentStarts(timeouts, statuses) ==
  {[store |-> <<>>, ours |-> NoBook, target |-> NoBook]}
  \cup {[store |-> <<StoredRow("AAVE", t, st)>>,
         ours |-> [s \in Symbols |-> IF s = "AAVE" THEN LongPos(5, LEVERAGE) ELSE NoPosition],
         target |-> [s \in Symbols |-> IF s = "AAVE" THEN p ELSE NoPosition]] :
         t \in timeouts, st \in statuses, p \in {NoPosition, LongPos(5, LEVERAGE)}}

InitIndep ==
  /\ InitIdle
  /\ \E st \in IndependentStarts({3}, {"open"}) :
       /\ independentPosition = st.store
       /\ ourPositions = st.ours
       /\ targetPositions = st.target
  /\ ourEquity = OurEquity
  /\ CONFIG = Config(TRUE, LEVERAGE)
  /\ hotSymbols = WHITELIST

NextIndep ==
  \/ AdvanceTimeout
  \/ \E i \in ScanIds : TickStart(i)
  \/ \E i \in ScanIds : ScanHealth(i)
  \/ \E i \in ScanIds : ScanFetch(i)
  \/ \E i \in ScanIds : ScanPredict(i)
  \/ \E i \in ScanIds : SignalsRead(i)
  \/ \E i \in ScanIds : SignalsOpen(i)
  \/ \E i \in ScanIds : ManageRead(i)
  \/ \E i \in ScanIds : ManageStep(i)
  \/ \E i \in ScanIds : BatchStart(i)
  \/ \E i \in ScanIds : BatchJoin(i)
  \/ \E i \in ScanIds : ScanFinalize(i)
  \/ \E i \in ScanIds, s \in Symbols : TaskLookup(i, s)
  \/ \E i \in ScanIds, s \in Symbols : TaskConfirm(i, s)
  \/ \E i \in ScanIds, s \in Symbols : TaskCloseLeg(i, s)
  \/ \E i \in ScanIds, s \in Symbols : TaskRecord(i, s)

SpecIndep == InitIndep /\ [][NextIndep]_vars

\* --- Claims about the copy planner next to the independent trader, under
\* SpecIndep.
\* The call of syncPosition for s in scan i has found the target without a
\* position, the operator with one, independent trading enabled, and has
\* been answered that an unconfirmed independent position exists.
FoundUnconfirmed(i, s) ==
  /\ CONFIG.ENABLED
  /\ task[i][s].pc \notin {"idle", "lookupClose"}
  /\ task[i][s].delta.targetSide = "none"
  /\ task[i][s].delta.ourSide # "none"
  /\ task[i][s].indepStatus.exists
  /\ ~task[i][s].indepStatus.confirmed

\* The call has returned without an order, a telemetry record, a call of
\* logCopyAction or an entry in tradedSymbols.
LeftAlone(i, s) ==
  /\ task[i][s].pc = "done"
  /\ task[i][s].events = <<>>
  /\ s \notin scan[i].tradedSymbols
  /\ ~\E name \in {"open", "close", "flip", "increase", "decrease"} :
        <<i, s, name>> \in tradeTable

\* Every call that found the unconfirmed position has returned that way.
SkipsUnconfirmed ==
  \A i \in ScanIds, s \in Symbols : FoundUnconfirmed(i, s) => LeftAlone(i, s)

\* The operator holds s, the target does not, and the store holds an open
\* (unconfirmed) independent position on s.
Protected(s) ==
  /\ CONFIG.ENABLED
  /\ ~targetPositions[s].present
  /\ ourPositions[s].present
  /\ \E k \in ActiveRows(independentPosition, s) : independentPosition[k].status = "open"

\* The step is an iteration of the loop of managePositions.
ManagerStep == \E i \in ScanIds : scan[i].pc = "manageLoop" /\ scan'[i] # scan[i]

\* C6: unconfirmed protection -- with the target holding nothing, the
\* operator holding a position, independent trading enabled and an open
\* (unconfirmed) independent position on the symbol, syncPosition issues no
\* order, records no copy action and does not add the symbol to
\* tradedSymbols; the operator's position is then changed only by the
\* independent manager.
C6_Unconfirmed ==
  /\ []SkipsUnconfirmed
  /\ [][\A s \in Symbols :
          (Protected(s) /\ ourPositions'[s] # ourPositions[s]) => ManagerStep]_vars

\* --- Claims about the store of independent positions, under SpecIndep.
RECURSIVE SumRowMargin(_, _)
SumRowMargin(table, K) ==
  IF K = {} THEN 0
  ELSE LET k == CHOOSE x \in K : TRUE
       IN (table[k].sizeUsd \div table[k].leverage) + SumRowMargin(table, K \ {k})

\* The step creates a record in the store: an entry of processSignals.
Entry == Len(independentPosition') > Len(independentPosition)

\* C8: independent allocation cap -- at every independent entry by
\* processSignals the sum of notional / leverage over the records with status
\* open or confirmed, the new one included, is at most maxAllocationPct times
\* the operator's equity.
C8_AllocationCap ==
  [][Entry =>
       SumRowMargin(independentPosition', AllActiveRows(independentPosition'))
           * MAX_ALLOCATION_PCT[2]
         <= MAX_ALLOCATION_PCT[1] * ourEquity']_vars

\* C9: single independent position per symbol -- in every state of the store
\* each symbol has at most one record with status open or confirmed.
C9_SinglePerSymbol ==
  \A s \in Symbols : Cardinality(ActiveRows(independentPosition, s)) <= 1

\* C10: terminal close -- a transition of a record to status closed sets
\* exitPrice, exitReason, closedAt, realizedPnl and realizedPnlPct in the same
\* update, and a record with status closed is not modified again.
C10_TerminalClose ==
  [][\A k \in 1..Len(independentPosition) :
       LET before == independentPosition[k]
           after == independentPosition'[k]
       IN /\ before.status = "closed" => after = before
          /\ (before.status # "closed" /\ after.status = "closed") =>
               /\ after.exitPrice = allMarkets[before.symbol]
               /\ after.exitReason \in {"tp", "sl", "timeout", "target_opposite"}
               /\ after.closedAt = now
               /\ after.realizedPnl = (after.exitPrice - before.entryPrice) * before.size
               /\ after.realizedPnlPct =
                    ((after.exitPrice - before.entryPrice) * 100) \div before.entryPrice]_vars

\* --- The orchestrator under fair scheduling: every step of the event loop
\* that can be taken is eventually taken.
SpecScanFair == SpecScan /\ WF_vars(NextScan)

CopyActions == {"open", "close", "flip", "increase", "decrease", "none"}

\* Scan i has passed the recorder and every symbol of its universe has its
\* Prediction record.
Recorded(i) ==
  /\ scan[i].pc \notin {"idle", "health", "fetch", "predict"}
  /\ \A s \in SeqToSet(scan[i].allSymbols) : predictionTable[i][s] # "absent"

\* Every record of scan i carries a copy action.
AllSet(i) ==
  \A s \in SeqToSet(scan[i].allSymbols) : predictionTable[i][s] \in CopyActions

AdjustReported(i, s) ==
  /\ task[i][s].action = "adjust"
  /\ \E k \in 1..Len(task[i][s].events) : task[i][s].events[k] = "logCopyAction"

\* Scan j has classified symbol s.
ClassifiedBy(j, s) == task[j][s].pc # "idle"

\* C13: adjust-then-scan -- after an adjust that executePositionSync reports
\* as successful, the next scan, with the target's position, the equity ratio
\* and the mid price unchanged, classifies the symbol as none.
C13_AdjustThenNone ==
  \A i \in ScanIds, s \in Symbols :
    (i + 1 \in ScanIds /\ AdjustReported(i, s) /\ ClassifiedBy(i + 1, s)) =>
      task[i + 1][s].action = "none"

\* --- Claims about successive planning cycles, under SpecCool (calls may
\* outlive their 30 s timer).
\* The step in which scan j reads the books it plans from (the state fetch
\* of _doScan succeeds).
ReadsBooks(j) == scan[j].pc = "fetch" /\ scan'[j].pc = "predict"

\* No call of syncPosition is still on its way to an order or a record.
NoCallPending ==
  \A i \in ScanIds, s \in Symbols : task[i][s].pc \in {"idle", "done"}

\* C12: convergence -- with the target unchanged, metadata and mids present,
\* no failed order on record and no independent position, each planning
\* cycle reads the operator's book as the orders of the previous cycle left
\* it: when a scan reads the books, no call of an earlier scan is still
\* pending.
C12_SeesPreviousCycle ==
  [][\A j \in ScanIds :
       (/\ ReadsBooks(j)
        /\ assetMetadataFetched'
        /\ independentPosition = <<>>
        /\ failedOrders = [s \in Symbols |-> 0]) => NoCallPending]_vars

\* --- The confirmation handoff: independent trading is enabled, the store
\* holds one independent long on AAVE (open or confirmed, due or not yet due)
\* that the operator's book carries; the target holds nothing on AAVE, the
\* same size, or a larger long.  Scans run one after the other.
HandoffStarts ==
  {[store |-> <<StoredRow("AAVE", t, st)>>,
    ours |-> [s \in Symbols |-> IF s = "AAVE" THEN LongPos(5, LEVERAGE) ELSE NoPosition],
    target |-> [s \in Symbols |-> IF s = "AAVE" THEN p ELSE NoPosition]] :
    t \in {1, 3}, st \in {"open", "confirmed"},
    p \in {NoPosition, LongPos(5, LEVERAGE), LongPos(7, LEVERAGE)}}

InitHandoff ==
  /\ InitIdle
  /\ \E st \in HandoffStarts :
       /\ independentPosition = st.store
       /\ ourPositions = st.ours
       /\ targetPositions = st.target
  /\ ourEquity = OurEquity
  /\ CONFIG = Config(TRUE, LEVERAGE)
  /\ hotSymbols = WHITELIST

NextHandoff ==
  \/ TickSkip
  \/ \E i \in ScanIds : TickStart(i)
  \/ \E i \in ScanIds : ScanHealth(i)
  \/ \E i \in ScanIds : ScanFetch(i)
  \/ \E i \in ScanIds : ScanPredict(i)
  \/ \E i \in ScanIds : SignalsRead(i)
  \/ \E i \in ScanIds : SignalsOpen(i)
  \/ \E i \in ScanIds : ManageRead(i)
  \/ \E i \in ScanIds : ManageStep(i)
  \/ \E i \in ScanIds : BatchStart(i)
  \/ \E i \in ScanIds : BatchJoin(i)
  \/ \E i \in ScanIds : ScanFinalize(i)
  \/ \E i \in ScanIds, s \in Symbols : TaskLookup(i, s)
  \/ \E i \in ScanIds, s \in Symbols : TaskConfirm(i, s)
  \/ \E i \in ScanIds, s \in Symbols : TaskCloseLeg(i, s)
  \/ \E i \in ScanIds, s \in Symbols : TaskOpenLeg(i, s)
  \/ \E i \in ScanIds, s \in Symbols : TaskRecord(i, s)

SpecHandoff == InitHandoff /\ [][NextHandoff]_vars

\* The step takes record k from status `from` to status `to`.
RowMoves(k, from, to) ==
  /\ independentPosition[k].status = from
  /\ independentPosition'[k].status = to

\* The step belongs to an adjust of the copy planner.
AdjustStep ==
  \E i \in ScanIds, s \in Symbols :
    task[i][s].action = "adjust" /\ task'[i][s] # task[i][s]

\* C14: confirmation handoff -- a record passes from open to confirmed only
\* when the target holds a position of the same direction in the symbol; a
\* confirmed record is not closed by the independent manager on TP, SL or
\* timeout; an adjust of the planner does not modify the records.
C14_Handoff ==
  [][/\ \A k \in 1..Len(independentPosition) :
          /\ RowMoves(k, "open", "confirmed") =>
               /\ targetPositions[independentPosition[k].symbol].present
               /\ positionSide(targetPositions[independentPosition[k].symbol])
                    = independentPosition[k].side
          /\ RowMoves(k, "confirmed", "closed") =>
               independentPosition'[k].exitReason \notin {"tp", "sl", "timeout"}
     /\ AdjustStep => independentPosition' = independentPosition]_vars

\* --- Small corrections on the cheap instrument: the target and the operator
\* hold VVV on the same side with sizes one to four contracts apart, next to
\* a SOL pair that is opened, flipped or closed.
NotionalTargets ==
  {[s \in Symbols |-> IF s = "SOL" THEN p ELSE IF s = "VVV" THEN q ELSE NoPosition] :
     p \in {NoPosition, ShortPos(68, 5)},
     q \in {LongPos(5, 5), LongPos(6, 5), LongPos(8, 5)}}
NotionalBooks ==
  {[s \in Symbols |-> IF s = "SOL" THEN p ELSE IF s = "VVV" THEN q ELSE NoPosition] :
     p \in {NoPosition, LongPos(68, 5)},
     q \in {LongPos(4, 5), LongPos(7, 5)}}

InitNotional ==
  /\ InitCommon
  /\ targetPositions \in NotionalTargets
  /\ ourPositions \in NotionalBooks
  /\ ourEquity = OurEquity
  /\ CONFIG = Config(FALSE, LEVERAGE)
  /\ hotSymbols = {}

SpecNotional == InitNotional /\ [][NextCopy]_vars

\* An adjust whose correction is worth less than the exchange minimum.
BelowMinNotional(tk) ==
  /\ tk.action = "adjust"
  /\ Abs(tk.delta.targetSizeForUs - tk.delta.ourSize) * allMarkets[tk.delta.symbol]
       < EXCHANGE_MIN_POSITION_VALUE

\* C15: minimum-notional adjust -- a call that classified adjust with
\* |scaledTargetSize - ourSize| * mid below 10 USD is over when it is
\* classified: the step that classifies it changes neither the operator book
\* nor the cool-down map, the call takes no further step, it sends no order
\* and records nothing (no copy-trade row, no logCopyAction, no tradedSymbols
\* entry of its scan).
C15_MinNotional ==
  [][\A i \in ScanIds, s \in Symbols :
       /\ (BelowMinNotional(task'[i][s]) /\ task'[i][s] # task[i][s]) =>
            /\ task[i][s].pc = "idle"
            /\ task'[i][s].pc = "done"
            /\ task'[i][s].events = <<>>
            /\ ourPositions' = ourPositions
            /\ failedOrders' = failedOrders
            /\ tradeTable' = tradeTable
            /\ s \notin scan'[i].tradedSymbols
       /\ BelowMinNotional(task[i][s]) =>
            /\ task'[i][s] = task[i][s]
            /\ s \notin scan'[i].tradedSymbols
            /\ \A a \in CopyActions : <<i, s, a>> \notin tradeTable']_vars

\* A scan has ended after a VVV adjust below the minimum was skipped: the
\* operator still holds the size it held, which differs from the target's.
C15_Witness ==
  \E i \in ScanIds :
    /\ BelowMinNotional(task[i]["VVV"])
    /\ scan[i].pc = "exited"
    /\ ourPositions["VVV"].szi = task[i]["VVV"].delta.ourSize
    /\ ourPositions["VVV"].szi # targetPositions["VVV"].szi

\* --- Closing under a cool-down: the operator holds SOL long; the target
\* holds the other side, the same side or nothing, and changes its book once.
\* A flip that fails leaves a cool-down entry for SOL behind, and the target
\* leaving SOL afterwards makes the next scan close.
CloseBooks ==
  {b \in TargetBooks : b["AAVE"] = NoPosition}

InitClose ==
  /\ InitCommon
  /\ targetPositions \in CloseBooks
  /\ ourPositions = [s \in Symbols |-> IF s = "SOL" THEN LongPos(68, 5) ELSE NoPosition]
  /\ ourEquity = OurEquity
  /\ CONFIG = Config(FALSE, LEVERAGE)
  /\ hotSymbols = {}

NextClose == NextCopy \/ TargetMove

SpecClose == InitClose /\ [][NextClose]_vars

\* The call of scan i for s has just been classified close.
ClassifiedClose(i, s) ==
  task'[i][s].action = "close" /\ task[i][s].pc \in {"idle", "lookupClose"}

\* The call of scan i for s, a close, returns from marketClosePosition.
CloseReturns(i, s) ==
  /\ task[i][s].action = "close"
  /\ task[i][s].pc = "closeLeg"
  /\ task'[i][s].pc = "record"

HeldAsPlanned(i, s) ==
  ourPositions[s].present /\ positionSide(ourPositions[s]) = task[i][s].delta.ourSide

\* C16: close is always attempted -- a call classified close (metadata and a
\* mid price present) goes on to marketClosePosition with percent 1, whatever
\* the cool-down map holds and whatever the position is worth; when the
\* operator holds the position as planned at that moment, the order request
\* is sent and the position is either gone (filled in full) or as it was
\* (rejected); and no step of a close changes the cool-down map, so that the
\* next scan is classified and proceeds in the same way.
C16_CloseAttempted ==
  [][\A i \in ScanIds, s \in Symbols :
       /\ ClassifiedClose(i, s) => task'[i][s].pc = "closeLeg"
       /\ (CloseReturns(i, s) /\ HeldAsPlanned(i, s)) =>
            /\ task'[i][s].events = Append(task[i][s].events, "closeReq")
            /\ ourPositions'[s] \in {NoPosition, ourPositions[s]}
       /\ (task[i][s].action = "close" /\ task'[i][s] # task[i][s]) =>
            failedOrders' = failedOrders]_vars

\* A flip of SOL failed in the first scan and left its cool-down entry; the
\* target then left SOL, and the second scan has sent the close while the
\* entry is in force.  The venue rejected it: the position is still held and
\* the entry is as the flip left it.
C16_Witness ==
  /\ CoolingDown(failedOrders, "SOL", now)
  /\ task[1]["SOL"].action = "flip"
  /\ task[1]["SOL"].events = <<"coolSet">>
  /\ task[2]["SOL"].action = "close"
  /\ task[2]["SOL"].events = <<"closeReq", "logCopyTrade", "tradedAdd", "logCopyAction">>
  /\ ourPositions["SOL"] = LongPos(68, 5)

\* The events of a call that stand for the venue order request.
OrderEvents == CloseEvents \cup OpenEvents
Before(events, a, k) == \E j \in 1..(k - 1) : events[j] \in a

\* C17: per-symbol ordering -- for every executed copy action of a symbol
\* within a scan, the venue order request precedes the logCopyAction call,
\* and the logCopyAction call precedes the insertion of the symbol into
\* tradedSymbols.
C17_RecordOrder ==
  \A i \in ScanIds, s \in Symbols :
    LET events == task[i][s].events
    IN \A k \in 1..Len(events) :
         /\ events[k] = "logCopyAction" => Before(events, OrderEvents, k)
         /\ events[k] = "tradedAdd" => Before(events, {"logCopyAction"}, k)

\* The call of scan i for s has stopped: it issues no further order and no
\* further action update.
Stopped(i, s) == task[i][s].pc \in {"idle", "done"}
PredictionsWritten(i) == scan[i].pc \in {"batch", "join", "finalize", "exited"}

\* C18: scan phase ordering -- within a scan the prediction records are
\* written before any copy order of that scan is issued, every logCopyAction
\* comes after the order it reports, and finalizeScanPredictions has run only
\* when every syncPosition call of the scan has stopped, the calls whose 30 s
\* timer fired included.
C18_PhaseOrder ==
  \A i \in ScanIds :
    /\ \A s \in Symbols :
         LET events == task[i][s].events
         IN /\ events # <<>> => PredictionsWritten(i)
            /\ \A k \in 1..Len(events) :
                 events[k] = "logCopyAction" => Before(events, OrderEvents, k)
    /\ scan[i].pc = "exited" => \A s \in Symbols : Stopped(i, s)

\* --- A book of six instruments, two batches: the target holds all six, the
\* operator matches it on AAVE, VVV, BTC and ETH, has SOL to open or to flip
\* in the first batch and HYPE to open in the second.  Calls may raise, may
\* outlive their 30 s timer.
BatchTarget ==
  [s \in Symbols |-> IF s = "SOL" THEN LongPos(68, 5)
                     ELSE IF s = "HYPE" THEN LongPos(20, 5) ELSE LongPos(5, 5)]
BatchBooks ==
  {[s \in Symbols |-> IF s = "SOL" THEN p
                      ELSE IF s = "HYPE" THEN NoPosition ELSE LongPos(5, 5)] :
     p \in {NoPosition, ShortPos(10, 5)}}

InitBatch ==
  /\ InitCommon
  /\ targetPositions = BatchTarget
  /\ ourPositions \in BatchBooks
  /\ ourEquity = OurEquity
  /\ CONFIG = Config(FALSE, LEVERAGE)
  /\ hotSymbols = {}

\* The first scan after the start of the process.
FirstScan == {1}
NextBatch ==
  \/ TickSkip
  \/ \E i \in FirstScan : TickStart(i)
  \/ \E i \in FirstScan : ScanHealth(i)
  \/ \E i \in FirstScan : ScanFetch(i)
  \/ \E i \in FirstScan : ScanPredict(i)
  \/ \E i \in FirstScan : BatchStart(i)
  \/ \E i \in FirstScan : BatchJoin(i)
  \/ \E i \in FirstScan : ScanFinalize(i)
  \/ \E i \in FirstScan, s \in Symbols : TaskTimeout(i, s)
  \/ \E i \in FirstScan, s \in Symbols : TaskMargin(i, s)
  \/ \E i \in FirstScan, s \in Symbols : TaskCloseLeg(i, s)
  \/ \E i \in FirstScan, s \in Symbols : TaskOpenLeg(i, s)
  \/ \E i \in FirstScan, s \in Symbols : TaskRecord(i, s)
  \/ \E i \in FirstScan, s \in Symbols : TaskSettle(i, s)

\* Every callback that is ready to run is run by the event loop.
SpecBatch == InitBatch /\ [][NextBatch]_vars /\ WF_vars(NextBatch)

\* The call of scan i for s ends by an exception, or loses against its timer.
Raises(i, s) ==
  /\ task[i][s].pc \in {"margin", "closeLeg", "openLeg"}
  /\ task'[i][s].pc = "done"
TimesOut(i, s) == ~task[i][s].abandoned /\ task'[i][s].abandoned
InBatches(i) == scan[i].pc \in {"batch", "join"}

\* C19: error isolation -- a step in which the call for one symbol raises or
\* is timed out changes no other call of the scan and does not end the scan;
\* a scan in its batch loop leaves it only towards
\* finalizeScanPredictions; and a scan that has entered the batch loop goes
\* on to plan every symbol of its book (same batch and later batches), each
\* call runs to its end, and the scan returns with the mutex released by it.
C19_Isolation ==
  /\ [][\A i \in ScanIds :
          /\ \A s \in Symbols :
               (Raises(i, s) \/ TimesOut(i, s)) =>
                 /\ \A o \in Symbols \ {s} : task'[i][o] = task[i][o]
                 /\ scan'[i] = scan[i]
          /\ InBatches(i) => scan'[i].pc \in {"batch", "join", "finalize"}]_vars
  /\ \A i \in ScanIds :
       [](InBatches(i) =>
            <>(/\ scan[i].pc = "exited"
               /\ \A s \in SeqToSet(scan[i].allSymbols) : task[i][s].pc = "done"))

\* The open of SOL raised in the first batch of a scan, or lost against its
\* timer; the scan went on to the second batch, where the open of HYPE was
\* sent and recorded, and has returned.
C19_Witness ==
  \E i \in ScanIds :
    /\ scan[i].pc = "exited"
    /\ scan[i].batchAt > BATCH_SIZE
    /\ task[i]["SOL"].action \in {"open", "flip"}
    /\ \/ task[i]["SOL"].abandoned
       \/ task[i]["SOL"].events = <<"coolSet">>
    /\ task[i]["HYPE"].events = <<"openReq", "logCopyTrade", "tradedAdd", "logCopyAction",
                                  "coolClear">>

\* The store health probe of scan i and its reconnect have both failed.
HealthAbort(i) == scan[i].pc = "health" /\ scan'[i].pc = "exited"
\* Scan i returned before it had read the books.
Aborted(i) == scan[i].pc = "exited" /\ scan[i].allSymbols = <<>>

\* C20: store unavailable -- after the health probe (and its one reconnect)
\* a scan either goes on to fetch or aborts; the abort clears scanRunning and
\* changes nothing else (no venue request, no order, no prediction write, no
\* cool-down change); an aborted scan has started no syncPosition call and
\* owns no prediction and no copy-trade row; and once it has aborted the next
\* tick is free to start a fresh scan.
C20_StoreUnavailable ==
  /\ [][\A i \in ScanIds :
          /\ scan[i].pc = "health" => scan'[i].pc \in {"health", "fetch", "exited"}
          /\ HealthAbort(i) =>
               /\ isScanRunning' = FALSE
               /\ UNCHANGED <<task, venueVars, storeVars, currentScanPredictions,
                              failedOrders, assetMetadataFetched, lastScanStartTime>>
               /\ \A j \in ScanIds : NextScanId(j)' => (ENABLED TickStart(j))']_vars
  /\ [](\A i \in ScanIds :
          Aborted(i) =>
            /\ \A s \in Symbols : task[i][s] = BlankTask /\ predictionTable[i][s] = "absent"
            /\ \A s \in Symbols, a \in CopyActions : <<i, s, a>> \notin tradeTable)

\* The first scan found the store down and returned with nothing done; the
\* next tick, in the same minute, has started the second scan.
C20_Witness ==
  /\ Aborted(1)
  /\ ~assetMetadataFetched
  /\ now = 1
  /\ lastTick = "started"
  /\ scan[2].pc = "health"
  /\ isScanRunning

\* A call of the state fetch of scan i has failed.
FetchAbort(i) == scan[i].pc = "fetch" /\ scan'[i].pc = "exited"

\* C21: state-fetch failure -- a scan at its state fetch either goes on to
\* the predictions or aborts; the abort clears scanRunning, writes no
\* prediction, runs no part of the independent trader, starts no
\* syncPosition call and sends no order; and after it the next tick is free
\* to start a scan, which begins from a blank scan record.
C21_FetchFailure ==
  [][\A i \in ScanIds :
       /\ scan[i].pc = "fetch" => scan'[i].pc \in {"fetch", "predict", "exited"}
       /\ FetchAbort(i) =>
            /\ isScanRunning' = FALSE
            /\ scan'[i].allSymbols = <<>>
            /\ scan'[i].signals = BlankSignals
            /\ task'[i] = [s \in Symbols |-> BlankTask]
            /\ predictionTable'[i] = [s \in Symbols |-> "absent"]
            /\ UNCHANGED <<task, venueVars, storeVars, currentScanPredictions,
                           failedOrders, lastScanStartTime>>
            /\ \A j \in ScanIds : NextScanId(j)' => (ENABLED TickStart(j))'
       /\ (scan[i].pc = "idle" /\ scan'[i].pc # "idle") =>
            scan'[i] = [BlankScan EXCEPT !.pc = "health", !.scanStartTime = now]]_vars

\* The state fetch of the first scan failed after the metadata had been
\* cached; the next tick started the second scan, which has run to its end:
\* it read the books, sent an order for one of its symbols and has returned.
C21_Witness ==
  /\ Aborted(1)
  /\ assetMetadataFetched
  /\ task[1] = [s \in Symbols |-> BlankTask]
  /\ scan[2].pc = "exited"
  /\ \E s \in SeqToSet(scan[2].allSymbols) :
       /\ task[2][s].pc = "done"
       /\ \E k \in 1..Len(task[2][s].events) : task[2][s].events[k] \in OrderEvents

\* A scan is running and is not yet considered hung.
WithinTimeout == isScanRunning /\ now - lastScanStartTime < SCAN_TIMEOUT_MS
Hung == isScanRunning /\ now - lastScanStartTime >= SCAN_TIMEOUT_MS
Starts(i) == scan[i].pc = "idle" /\ scan'[i].pc # "idle"
Returns(i) == scan[i].pc \notin {"idle", "exited"} /\ scan'[i].pc = "exited"

\* C22: tick handling -- while scanRunning is set and less than SCAN_TIMEOUT
\* has passed since scanStartedAt, no scan body starts and a tick changes
\* neither scanRunning nor scanStartedAt; with scanRunning set and the
\* timeout elapsed a tick can start a scan, and the scan it starts finds the
\* flag reset and set again with a new scanStartedAt; and whenever a scan
\* body returns, scanRunning is false.
C22_Ticks ==
  [][/\ WithinTimeout =>
          /\ \A i \in ScanIds : ~Starts(i)
          /\ lastScanStartTime' = lastScanStartTime
          /\ lastTick' # lastTick => UNCHANGED <<isScanRunning, scan>>
          /\ isScanRunning' # isScanRunning => \E i \in ScanIds : Returns(i)
     /\ Hung => \A j \in ScanIds : NextScanId(j) => ENABLED TickStart(j)
     /\ \A i \in ScanIds :
          /\ (Starts(i) /\ isScanRunning) =>
               /\ Hung
               /\ lastTick' = "reset"
               /\ isScanRunning' /\ lastScanStartTime' = now
          /\ Returns(i) => isScanRunning' = FALSE]_vars

\* The first scan hung, a tick after the timeout reset the flag and started
\* the second scan; the first scan has returned since, and the flag is clear
\* while the second scan is at work.
C22_Witness ==
  /\ lastTick = "reset"
  /\ scan[1].pc = "exited"
  /\ scan[2].pc \in {"predict", "batch", "join"}
  /\ ~isScanRunning

\* --- Entries of size zero: the venue's answer lists the instrument with
\* szi 0.  What such an entry carries as entry and liquidation price is up to
\* the venue, so both outcomes of positionSide are drawn.  The scan calls
\* syncPosition for the symbols held with a size other than zero by either
\* account.
ZeroEntries ==
  {[present |-> TRUE, szi |-> 0, entryPx |-> e, liquidationPx |-> 0, leverage |-> 5] :
     e \in {0, 10}}
ZeroPositions == PlanPositions \cup ZeroEntries

InitZero ==
  /\ now = 1
  /\ isScanRunning = FALSE
  /\ lastScanStartTime = 0
  /\ failedOrders = [s \in Symbols |-> 0]
  /\ assetMetadataFetched = FALSE
  /\ scan = [i \in ScanIds |-> BlankScan]
  /\ task = [i \in ScanIds |-> [s \in Symbols |-> BlankTask]]
  /\ independentPosition = <<>>
  /\ currentScanPredictions = [s \in Symbols |-> NoPrediction]
  /\ predictionTable = [i \in ScanIds |-> [s \in Symbols |-> "absent"]]
  /\ tradeTable = {}
  /\ lastTick = "none"
  /\ targetMoves = 0
  /\ targetPositions = NoBook
  /\ ourPositions = NoBook
  /\ ourEquity = OurEquity
  /\ CONFIG = Config(FALSE, LEVERAGE)
  /\ hotSymbols = {}
  /\ \E t \in ZeroPositions, o \in ZeroPositions, e \in BOOLEAN,
        a \in IndependentAnswers :
       /\ t.szi # 0 \/ o.szi # 0
       /\ plan = [BlankPlan EXCEPT !.targetPosition = t, !.ourPosition = o,
                                !.enabled = e, !.indepStatus = a]
  /\ prediction = NoRow

SpecZero == InitZero /\ [][NextPlan]_vars

\* The entry as the claim reads it: size zero is no entry.
AsAbsent(position) == IF position.szi = 0 THEN NoPosition ELSE position

\* C23: zero size is no position -- in syncPosition an entry whose signed
\* size is 0 gets side none and size 0, and the call is classified as it
\* would be without the entry: a zero-size target entry with the operator
\* holding classifies as close, a zero-size operator entry with the target
\* holding classifies as open.
C23_ZeroIsAbsent ==
  plan.action # "pending" =>
    /\ SideOf(plan.targetPosition) = SideOf(AsAbsent(plan.targetPosition))
    /\ SideOf(plan.ourPosition) = SideOf(AsAbsent(plan.ourPosition))
    /\ plan.action =
         ClassifyDelta(PositionDelta("SOL", AsAbsent(plan.targetPosition),
                                     AsAbsent(plan.ourPosition), <<1, 1>>),
                       plan.enabled, plan.indepStatus)

\* --- Leverage: the target holds SOL with a leverage below, at or above the
\* maxLeverage of the cached metadata (the cache is filled once per process,
\* the venue's limits move); the operator holds nothing, the other side, or
\* less on the same side.
LeverageTargets ==
  {[s \in Symbols |-> IF s = "SOL" THEN LongPos(68, lev) ELSE NoPosition] :
     lev \in {3, 5, 10}}
LeverageBooks ==
  {[s \in Symbols |-> IF s = "SOL" THEN p ELSE NoPosition] :
     p \in {NoPosition, ShortPos(20, 5), LongPos(40, 5)}}

InitLeverage ==
  /\ InitCommon
  /\ targetPositions \in LeverageTargets
  /\ ourPositions \in LeverageBooks
  /\ ourEquity = OurEquity
  /\ CONFIG = Config(FALSE, LEVERAGE)
  /\ hotSymbols = {}

SpecLeverage == InitLeverage /\ [][NextCopy]_vars

\* The call of scan i for s sends an order that opens a position.
OpensPosition(i, s) ==
  /\ task[i][s].pc = "openLeg"
  /\ task'[i][s].events = Append(task[i][s].events, "openReq")
  /\ ~ourPositions[s].present
  /\ ourPositions'[s].present

\* C24: leverage cap -- a position opened by the copy planner (by an open,
\* by the open leg of a flip) carries the leverage
\* min(targetLeverage, maxLeverage) that the update-leverage request set, and
\* never more than the instrument's maxLeverage.
C24_LeverageCap ==
  [][\A i \in ScanIds, s \in Symbols :
       OpensPosition(i, s) =>
         /\ ourPositions'[s].leverage = Min(task[i][s].delta.targetLeverage, maxLeverage[s])
         /\ ourPositions'[s].leverage <= maxLeverage[s]]_vars

\* --- Small target positions: SOL worth 20 USD at leverage 5 (margin 4),
\* worth 40 USD at leverage 10 (above the maxLeverage of 5) or worth 680 USD,
\* and VVV worth 5 USD at leverage 1; the operator has SOL to open, to flip
\* or to increase.
GateTargets ==
  {[s \in Symbols |-> IF s = "SOL" THEN p ELSE IF s = "VVV" THEN q ELSE NoPosition] :
     p \in {LongPos(2, 5), LongPos(4, 10), LongPos(68, 5)},
     q \in {NoPosition, LongPos(1, 1)}}
GateBooks ==
  {[s \in Symbols |-> IF s = "SOL" THEN p ELSE NoPosition] :
     p \in {NoPosition, ShortPos(20, 5), LongPos(1, 5)}}

InitGates ==
  /\ InitCommon
  /\ targetPositions \in GateTargets
  /\ ourPositions \in GateBooks
  /\ ourEquity = OurEquity
  /\ CONFIG = Config(FALSE, LEVERAGE)
  /\ hotSymbols = {}

SpecGates == InitGates /\ [][NextCopy]_vars

\* margin = scaledTargetSize * mid / actualLeverage below 5, or
\* notional = scaledTargetSize * mid below 10, as exact comparisons.
BelowMinimums(delta) ==
  LET notional == delta.targetSizeForUs * allMarkets[delta.symbol]
      actualLeverage == Min(delta.targetLeverage, maxLeverage[delta.symbol])
  IN \/ notional < MIN_POSITION_SIZE_USD * actualLeverage
     \/ notional < EXCHANGE_MIN_POSITION_VALUE

\* C25: minimum gates -- a call classified open, flip or adjust whose margin
\* is below 5 USD or whose notional is below 10 USD is over when it is
\* classified: it sends no order (for a flip not even the close), creates no
\* cool-down entry, records nothing and does not add the symbol to
\* tradedSymbols.
C25_MinimumGates ==
  \A i \in ScanIds, s \in Symbols :
    LET tk == task[i][s]
    IN (tk.action \in {"open", "flip", "adjust"} /\ BelowMinimums(tk.delta)) =>
         /\ tk.pc = "done"
         /\ tk.events = <<>>
         /\ s \notin scan[i].tradedSymbols
         /\ \A a \in CopyActions : <<i, s, a>> \notin tradeTable

\* A flip of SOL towards a target position with a margin of 4 USD was gated:
\* its scan has returned, the operator still holds the short, and no
\* cool-down entry exists.
C25_Witness ==
  \E i \in ScanIds :
    /\ scan[i].pc = "exited"
    /\ task[i]["SOL"].action = "flip"
    /\ BelowMinimums(task[i]["SOL"].delta)
    /\ ourPositions["SOL"] = ShortPos(20, 5)
    /\ failedOrders["SOL"] = 0

\* --- Claim C26 (entry filter of processSignals), under SpecIndep.
\* Scan i calls openPosition in this step: the loop of processSignals has
\* passed its three gates and counts one more position.
Dispatches(i) ==
  /\ scan[i].pc = "signalsLoop"
  /\ scan'[i].signals.openCount = scan[i].signals.openCount + 1
\* The filter conditions for s in scan i, on the state the dispatch finds.
EntryConditions(i, s) ==
  /\ currentScanPredictions[s].id # 0
  /\ currentScanPredictions[s].score >= MIN_SCORE
  /\ currentScanPredictions[s].direction = 1
  /\ s \in WHITELIST
  /\ ~ourPositions[s].present
  /\ \A k \in AllActiveRows(independentPosition) : independentPosition[k].symbol # s
  /\ ~scan[i].targetPositions[s].present
\* C26: processSignals dispatches an independent open for a symbol only if,
\* in that scan, the prediction has score >= MIN_SCORE and direction +1, the
\* symbol is on the whitelist, the operator holds no position in it, no
\* independent position that is open or confirmed exists for it and the
\* target holds no position in it; so at entry time the symbol is not owned
\* twice.
C26_EntryFilter ==
  [][\A i \in ScanIds :
       Dispatches(i) => EntryConditions(i, Head(scan[i].signals.eligible))]_vars

\* --- SpecMargin: the independent trader with most of the operator's equity
\* already held as margin.  The operator mirrors the target's SOL long (the
\* planner has nothing to adjust, so no call of syncPosition gets past its
\* classification); what is left withdrawable is 12, 6 or 2.
MarginBooks ==
  {[s \in Symbols |-> IF s = "SOL" THEN LongPos(n, LEVERAGE) ELSE NoPosition] :
     n \in {144, 147, 149}}
InitMargin ==
  /\ InitIdle
  /\ independentPosition = <<>>
  /\ \E b \in MarginBooks : ourPositions = b /\ targetPositions = b
  /\ ourEquity = OurEquity
  /\ CONFIG = Config(TRUE, LEVERAGE)
  /\ hotSymbols = WHITELIST
NextMargin ==
  \/ TickSkip
  \/ \E i \in ScanIds : TickStart(i)
  \/ \E i \in ScanIds : ScanHealth(i)
  \/ \E i \in ScanIds : ScanFetch(i)
  \/ \E i \in ScanIds : ScanPredict(i)
  \/ \E i \in ScanIds : SignalsRead(i)
  \/ \E i \in ScanIds : SignalsOpen(i)
  \/ \E i \in ScanIds : ManageRead(i)
  \/ \E i \in ScanIds : ManageStep(i)
  \/ \E i \in ScanIds : BatchStart(i)
  \/ \E i \in ScanIds : BatchJoin(i)
  \/ \E i \in ScanIds : ScanFinalize(i)
  \/ \E i \in ScanIds, s \in Symbols : TaskLookup(i, s)
SpecMargin == InitMargin /\ [][NextMargin]_vars

\* C27: processSignals dispatches no independent open unless the margin
\* budget min(remaining allocation / slots remaining, cap / MAX_POSITIONS),
\* which openPosition takes as the margin of the new position, is at least
\* 10 USD and at most 95% of the withdrawable balance the scan has read.
C27_MarginGate ==
  [][\A i \in ScanIds :
       Dispatches(i) =>
         /\ PositionSizeUsd(scan[i].signals) >= 10
         /\ PositionSizeUsd(scan[i].signals) * 100 <= scan[i].signals.available * 95]_vars

\* --- Claim C28 (position cap of the independent trader), under SpecIndep.
\* The number of records that are open or confirmed.
OpenCount == Cardinality(AllActiveRows(independentPosition))
\* C28: in every reachable state at most MAX_POSITIONS independent-position
\* records are open or confirmed; processSignals opens nothing when the
\* count is already MAX_POSITIONS, and stops opening once it reaches it.
C28_PositionCap ==
  /\ OpenCount <= MAX_POSITIONS
  /\ \A i \in ScanIds :
       scan[i].pc = "signalsLoop" => scan[i].signals.openCount < MAX_POSITIONS

\* --- SpecManage: one scan over a store holding one independent long, in
\* either exit mode.  The record is for AAVE (mid 10, held by the operator)
\* or for a symbol the venue no longer lists (no mid price), is open or
\* confirmed, has timed out or not, and carries the tpPrice and slPrice of
\* an earlier entry; the target holds AAVE long, short or not at all.
ManagedRow(sym, status, timeoutAt, tpPrice, slPrice) ==
  [NewRow(FALSE, "AAVE", 10, LEVERAGE, 1) EXCEPT
     !.symbol = sym, !.status = status, !.confirmedByTarget = (status = "confirmed"),
     !.timeoutAt = timeoutAt, !.tpPrice = tpPrice, !.slPrice = slPrice]
ManagedRows ==
  {ManagedRow(sym, st, t, px[1], px[2]) :
     sym \in {"AAVE", "LUNA"}, st \in {"open", "confirmed"}, t \in {1, 500},
     px \in {<<12, 8>>, <<9, 7>>, <<13, 11>>, <<9, 11>>, <<0, 0>>}}
ManagedTargets == {NoPosition, LongPos(5, LEVERAGE), ShortPos(5, LEVERAGE)}
InitManage ==
  /\ InitIdle
  /\ \E row \in ManagedRows, p \in ManagedTargets :
       /\ independentPosition = <<row>>
       /\ ourPositions = [s \in Symbols |->
            IF s = row.symbol THEN LongPos(5, LEVERAGE) ELSE NoPosition]
       /\ targetPositions = [s \in Symbols |-> IF s = "AAVE" THEN p ELSE NoPosition]
  /\ ourEquity = OurEquity
  /\ \E timeBased \in BOOLEAN :
       CONFIG = [Config(TRUE, LEVERAGE) EXCEPT !.USE_TIME_BASED_EXIT = timeBased]
  /\ hotSymbols = {}
NextManage ==
  \/ \E i \in FirstScan : TickStart(i)
  \/ \E i \in FirstScan : ScanHealth(i)
  \/ \E i \in FirstScan : ScanFetch(i)
  \/ \E i \in FirstScan : ScanPredict(i)
  \/ \E i \in FirstScan : SignalsRead(i)
  \/ \E i \in FirstScan : ManageRead(i)
  \/ \E i \in FirstScan : ManageStep(i)
  \/ \E i \in FirstScan : BatchStart(i)
  \/ \E i \in FirstScan : BatchJoin(i)
  \/ \E i \in FirstScan : ScanFinalize(i)
  \/ \E i \in FirstScan, s \in Symbols : TaskLookup(i, s)
  \/ \E i \in FirstScan, s \in Symbols : TaskConfirm(i, s)
  \/ \E i \in FirstScan, s \in Symbols : TaskMargin(i, s)
  \/ \E i \in FirstScan, s \in Symbols : TaskCloseLeg(i, s)
  \/ \E i \in FirstScan, s \in Symbols : TaskOpenLeg(i, s)
  \/ \E i \in FirstScan, s \in Symbols : TaskRecord(i, s)
  \/ \E i \in FirstScan, s \in Symbols : TaskSettle(i, s)
SpecManage == InitManage /\ [][NextManage]_vars

\* The rule the claim gives for a position with a mid price: the first that
\* matches, "none" when no rule does.
ExitRule(pos, target, mid, t) ==
  IF target.present /\ target.szi # 0 /\ positionSide(target) = pos.side
  THEN "same_side"
  ELSE IF target.present /\ target.szi # 0 THEN "target_opposite"
  ELSE IF ~CONFIG.USE_TIME_BASED_EXIT /\ mid >= pos.tpPrice THEN "tp"
  ELSE IF ~CONFIG.USE_TIME_BASED_EXIT /\ mid <= pos.slPrice THEN "sl"
  ELSE IF t >= pos.timeoutAt THEN "timeout"
  ELSE "none"
\* Record id is closed with the given reason in this step, or the close has
\* failed and nothing is written; no other record changes.
ClosesWith(id, reason) ==
  \/ independentPosition' = independentPosition
  \/ /\ independentPosition'[id].status = "closed"
     /\ independentPosition'[id].exitReason = reason
     /\ independentPosition' = [independentPosition EXCEPT ![id] = independentPosition'[id]]
\* The loop of managePositions in scan i handles its next record in this step.
Manages(i) == scan[i].pc = "manageLoop" /\ scan'[i] # scan[i]
\* C29: for a position that is open or confirmed and has a mid price,
\* managePositions applies exactly the first matching rule of: target on the
\* same side -> mark confirmed (if not yet), no close; target on the
\* opposite side -> close with target_opposite; in tp-sl mode mid >= tpPrice
\* -> close with tp, mid <= slPrice -> close with sl; now >= timeoutAt ->
\* close with timeout (both modes); otherwise nothing.  A position without a
\* mid price is left unchanged.
C29_ExitDecision ==
  [][\A i \in ScanIds :
       Manages(i) =>
         LET head == Head(scan[i].openPositions)
             pos == head.pos
             target == IF pos.symbol \in Symbols
                       THEN scan[i].targetPositions[pos.symbol] ELSE NoPosition
             rule == ExitRule(pos, target, MidPrice(pos.symbol), now)
         IN IF MidPrice(pos.symbol) = 0 \/ rule = "none"
            THEN UNCHANGED <<independentPosition, ourPositions>>
            ELSE IF rule = "same_side"
            THEN /\ ourPositions' = ourPositions
                 /\ independentPosition' =
                      IF pos.status = "confirmed" THEN independentPosition
                      ELSE [independentPosition EXCEPT
                              ![head.id].status = "confirmed",
                              ![head.id].confirmedByTarget = TRUE]
            ELSE ClosesWith(head.id, rule)]_vars
\* In tp-sl mode a record whose mid is below tpPrice and at or below slPrice
\* has been closed with sl although it has timed out as well.
C29_Witness ==
  /\ ~CONFIG.USE_TIME_BASED_EXIT
  /\ Len(independentPosition) = 1
  /\ independentPosition[1].status = "closed"
  /\ independentPosition[1].exitReason = "sl"
  /\ independentPosition[1].timeoutAt <= now
  /\ ~ourPositions["AAVE"].present

\* --- Claim C30 (close-out on an opposite target, then the planner), under
\* SpecManage.
\* The independent record for s has been closed with target_opposite.
ClosedOpposite(s) ==
  \E k \in 1..Len(independentPosition) :
    /\ independentPosition[k].symbol = s
    /\ independentPosition[k].status = "closed"
    /\ independentPosition[k].exitReason = "target_opposite"
\* C30: when the operator holds an independent long and the target holds a
\* short in the same symbol, managePositions closes the independent position
\* with target_opposite, and the syncPosition call of that same scan then
\* sees ourSide none and targetSide short and classifies open, not flip or
\* close.
C30_OppositeThenOpen ==
  \A i \in FirstScan, s \in Symbols :
    ClosedOpposite(s) /\ ~ourPositions[s].present /\ task[i][s].pc # "idle" =>
      /\ task[i][s].delta.ourSide = "none"
      /\ task[i][s].delta.targetSide = "short"
      /\ task[i][s].action = "open"

\* --- SpecFlight: one scan over six instruments that all need a close (the
\* target has left them, the operator still holds them), so that every call
\* of both batches has an order to send.  The venue answers the orders for
\* SOL (first batch) and HYPE (second batch); the order requests for the
\* other instruments stay unanswered, and their calls lose against the 30 s
\* timer.
InitFlight ==
  /\ InitCommon
  /\ targetPositions = NoBook
  /\ ourPositions = [s \in Symbols |-> LongPos(5, 5)]
  /\ ourEquity = OurEquity
  /\ CONFIG = Config(FALSE, LEVERAGE)
  /\ hotSymbols = {}
NextFlight ==
  \/ \E i \in FirstScan : TickStart(i)
  \/ \E i \in FirstScan : ScanHealth(i)
  \/ \E i \in FirstScan : ScanFetch(i)
  \/ \E i \in FirstScan : ScanPredict(i)
  \/ \E i \in FirstScan : BatchStart(i)
  \/ \E i \in FirstScan : BatchJoin(i)
  \/ \E i \in FirstScan : ScanFinalize(i)
  \/ \E i \in FirstScan, s \in Symbols : TaskTimeout(i, s)
  \/ \E i \in FirstScan, s \in {"SOL", "HYPE"} : TaskCloseLeg(i, s)
  \/ \E i \in FirstScan, s \in {"SOL", "HYPE"} : TaskRecord(i, s)
SpecFlight == InitFlight /\ [][NextFlight]_vars

\* The syncPosition calls of scan i that can still send a request.
InFlight(i) == {s \in Symbols : task[i][s].pc \notin {"idle", "done"}}
\* C31: at every moment of a scan at most BATCH_SIZE syncPosition calls are
\* in flight, the calls whose 30 s timer has fired included.
C31_BoundedConcurrency ==
  \A i \in ScanIds : Cardinality(InFlight(i)) <= BATCH_SIZE

\* --- SpecTopUp: the operator holds SOL and the target holds more of it (an
\* increase of 8 with margin to spare, or of 23 with 6 USD withdrawable), or
\* the operator is short where the target is long (a flip, whose open leg
\* finds the short still there when the close leg did not fill).
InitTopUp ==
  /\ InitCommon
  /\ \E st \in {<<LongPos(60, 5), LongPos(68, 5)>>, <<LongPos(147, 5), LongPos(170, 5)>>,
                <<ShortPos(10, 5), LongPos(68, 5)>>} :
       /\ ourPositions = [s \in Symbols |-> IF s = "SOL" THEN st[1] ELSE NoPosition]
       /\ targetPositions = [s \in Symbols |-> IF s = "SOL" THEN st[2] ELSE NoPosition]
  /\ ourEquity = OurEquity
  /\ CONFIG = Config(FALSE, LEVERAGE)
  /\ hotSymbols = {}
SpecTopUp == InitTopUp /\ [][NextCopy]_vars

\* The call of scan i for s returns from openCopyPosition in this step.
OpenReturns(i, s) == task[i][s].pc = "openLeg" /\ task'[i][s].pc # "openLeg"
\* The last event of the call after the step.
LastEvent(i, s) == task'[i][s].events[Len(task'[i][s].events)]
\* An order request went out in this step and was not rejected.
OrderAccepted(i, s) == task'[i][s].pc = "record" /\ LastEvent(i, s) = "openReq"
\* The size delta an adjust asks openCopyPosition to add.
RequestedDelta(i, s) == task[i][s].delta.targetSizeForUs - task[i][s].delta.ourSize
\* The largest size that 95% of the withdrawable balance affords.
SizeCap(s, leverage) ==
  RoundDiv(Withdrawable(ourPositions, ourEquity) * leverage * 95, 100 * allMarkets[s])
\* With a position in the symbol and addToExisting not set, the call sends
\* no request and changes nothing; with addToExisting set an accepted order
\* adds `size` in the current direction.
ReadsFirst(i, s, size) ==
  OpenReturns(i, s) /\ ourPositions[s].present =>
    IF task[i][s].action # "adjust"
    THEN /\ ourPositions' = ourPositions
         /\ task'[i][s].pc = "record"
         /\ LastEvent(i, s) = "openCall"
    ELSE OrderAccepted(i, s) =>
           ourPositions' = Filled(ourPositions, s, ourPositions[s].szi > 0, size,
                                  ourPositions[s].leverage)
Val(x) == CHOOSE v \in x : TRUE
\* STRATEGY.TOP_SYMBOLS and STRATEGY.CORRELATED_BASKET, within Symbols.
TOP_SYMBOLS == {"HYPE", "VVV"}
CORRELATED_BASKET == {"HYPE"}

\* scorePrediction(symbol, state), with the UTC hour it reads from the clock.
scorePrediction(symbol, state, hour) ==
  LET pp == state.pricePosition
      c1 == state.priceChange1h
      c4 == state.priceChange4h
      btc == state.btcChange1h
      mh == state.macdHist
      atr == state.atrPercent
      fr == state.fundingRate
      breakout == pp # {} /\ Val(pp) > 70
      dip == pp # {} /\ ~breakout /\ Val(pp) < 30
      up1 == c1 # {} /\ Val(c1) > 5
      down1 == c1 # {} /\ ~up1 /\ Val(c1) < -5
      up4 == c4 # {} /\ Val(c4) > 10
      down4 == c4 # {} /\ ~up4 /\ Val(c4) < -10
      calm == btc # {} /\ state.btcIsCalm
      btcUp == btc # {} /\ Val(btc) > 3
      btcDown == btc # {} /\ ~btcUp /\ Val(btc) < -3
      asia == hour \in 0..7
      europe == hour \in 8..15
      us == hour \in 16..23
      macdUp == mh # {} /\ Val(mh) > 0
      macdDown == mh # {} /\ Val(mh) < 0
      volatile == atr # {} /\ Val(atr) > 50
      fundLong == fr # {} /\ Val(fr) > 20
      fundShort == fr # {} /\ ~fundLong /\ Val(fr) < -10
      N(b) == IF b THEN 1 ELSE 0
      score == 50 + 20 * N(breakout) + 5 * N(dip) + 15 * N(up1) + 5 * N(down1)
                  + 10 * N(up4) + 5 * N(down4) + 10 * N(calm) + 5 * N(btcUp /\ calm)
                  + 10 * N(asia) + 8 * N(europe) + 3 * N(us)
                  + 10 * N(symbol \in TOP_SYMBOLS) + 5 * N(symbol \in CORRELATED_BASKET)
                  + 5 * N(macdUp) + 5 * N(volatile)
      longSignals == 2 * N(breakout) + N(dip) + N(up1) + N(up4) + N(btcUp)
                     + N(asia) + N(europe) + N(macdUp) + N(fundLong)
      shortSignals == N(down1) + N(down4) + N(btcDown) + N(macdDown) + N(fundShort)
  IN [score |-> score,
      direction |-> IF longSignals > shortSignals THEN 1
                    ELSE IF shortSignals > longSignals THEN -1
                    ELSE IF longSignals > 0 THEN 1 ELSE 0]

\* The market states logPredictions can compute from the candle, indicator
\* and funding tables; btcIsCalm is btcChange1h !== null && |btcChange1h| < 1.
MarketStates ==
  {[symbol |-> s, pricePosition |-> pp, priceChange1h |-> c1, priceChange4h |-> c4,
    btcChange1h |-> btc, btcIsCalm |-> (btc # {} /\ Abs(Val(btc)) < 10),
    macdHist |-> mh, atrPercent |-> atr, fundingRate |-> fr] :
     s \in {"HYPE", "VVV", "AAVE"}, pp \in {{}, {80}, {20}, {50}},
     c1 \in {{}, {10}, {-10}}, c4 \in {{}, {20}, {-20}},
     btc \in {{}, {5}, {-5}, {20}}, mh \in {{}, {1}, {-1}},
     atr \in {{}, {60}}, fr \in {{}, {30}, {-20}}}

InitLogger ==
  /\ InitCommon
  /\ targetPositions = NoBook
  /\ ourPositions = NoBook
  /\ ourEquity = OurEquity
  /\ CONFIG = Config(FALSE, LEVERAGE)
  /\ hotSymbols = {}

\* logPredictions for one symbol, up to the market state.
PredictionState ==
  /\ prediction = NoRow
  /\ \E st \in MarketStates, hour \in {3, 10, 20} :
       prediction' = [stage |-> "state", state |-> st, hour |-> hour]
  /\ UNCHANGED <<now, mutexVars, failedOrders, assetMetadataFetched, scan, task,
                 venueVars, storeVars, currentScanPredictions, CONFIG, hotSymbols,
                 lastTick, plan>>
\* logPredictions for one symbol: the score, the row (confidence in
\* hundredths) and the cache entry.
LogPrediction ==
  /\ prediction.stage = "state"
  /\ LET r == scorePrediction(prediction.state.symbol, prediction.state, prediction.hour)
     IN prediction' =
          [stage |-> "logged", state |-> prediction.state, hour |-> prediction.hour,
           row |-> [prediction |-> r.score, confidence |-> Min(r.score, 100),
                    direction |-> r.direction],
           cached |-> [score |-> r.score, direction |-> r.direction]]
  /\ UNCHANGED <<now, mutexVars, failedOrders, assetMetadataFetched, scan, task,
                 venueVars, storeVars, currentScanPredictions, CONFIG, hotSymbols,
                 lastTick, plan>>
SpecScore == InitLogger /\ [][PredictionState \/ LogPrediction]_vars

\* C33: every prediction produced by the scoring function, persisted by
\* logPredictions and mirrored in the in-memory map has a score in [0, 100],
\* confidence = score / 100 and a direction of +1, -1 or none, for every
\* market state.
C33_ScoreRange ==
  prediction.stage = "logged" =>
    /\ prediction.row.prediction \in 0..100
    /\ prediction.row.confidence = prediction.row.prediction
    /\ prediction.cached.score \in 0..100
    /\ prediction.row.direction \in {1, -1, 0}
    /\ prediction.cached.direction = prediction.row.direction

\* ------------------------------------------------- validation of predictions
\* VALIDATION_WINDOW_MS (4 hours), in minutes.
VALIDATION_WINDOW_MS == 240
HIGH_CONFIDENCE_THRESHOLD == 65
\* Rows of the Prediction table as logPredictions and the scan's copy actions
\* leave them: timestamp in minutes (the clock reads 1), entryPrice 0 and
\* validatedAt 0 for null, copyAction "null" for an unset column.
StoredPredictions ==
  {[prediction |-> sc, direction |-> d, copyAction |-> a, entryPrice |-> e,
    timestamp |-> t, validatedAt |-> v, validations |-> 0] :
     sc \in {60, 65, 105}, d \in {1, -1, 0}, a \in {"null", "none", "open"},
     e \in {0, 100}, t \in {-300, -239, -100}, v \in {0, -20}}

\* The Prediction row and the latest 1h candle close of its symbol ({} when
\* the candle table has none) that a validation run finds in the store.
ValidationStore ==
  /\ prediction = NoRow
  /\ \E row \in StoredPredictions, close \in {{}, {90}, {100}, {110}} :
       prediction' = [stage |-> "stored", row |-> row, latestCandle |-> close]
  /\ UNCHANGED <<now, mutexVars, failedOrders, assetMetadataFetched, scan, task,
                 venueVars, storeVars, currentScanPredictions, CONFIG, hotSymbols,
                 lastTick, plan>>

\* The where clause of findMany in validatePastPredictions.
Unvalidated(row, t) ==
  /\ row.validatedAt = 0
  /\ row.timestamp < t - VALIDATION_WINDOW_MS
  /\ row.entryPrice # 0

\* The update validatePastPredictions writes for pred at exitPrice.
Validated(pred, exitPrice, t) ==
  LET priceDiff == exitPrice - pred.entryPrice
      paperPnl == IF pred.direction = 1 THEN priceDiff
                  ELSE IF pred.direction = -1 THEN 0 - priceDiff ELSE 0
      highConfidence == pred.prediction >= HIGH_CONFIDENCE_THRESHOLD
      actionTaken == pred.copyAction \notin {"null", "none"}
      directionCorrect == \/ pred.direction = 1 /\ priceDiff > 0
                          \/ pred.direction = -1 /\ priceDiff < 0
  IN [pred EXCEPT !.validatedAt = t,
                  !.validations = @ + 1] @@
     [exitPrice |-> exitPrice, paperPnl |-> paperPnl,
      correct |-> \/ highConfidence /\ directionCorrect
                  \/ ~highConfidence /\ ~actionTaken]

\* validatePastPredictions for the row of the store.
validatePastPredictions ==
  /\ prediction.stage \in {"stored", "validated"}
  /\ LET pred == prediction.row
     IN IF ~Unvalidated(pred, now) \/ prediction.latestCandle = {}
        THEN prediction' = [prediction EXCEPT !.stage = "skipped"]
        ELSE prediction' = [prediction EXCEPT
               !.stage = "validated",
               !.row = Validated(pred, Val(prediction.latestCandle), now)]
  /\ UNCHANGED <<now, mutexVars, failedOrders, assetMetadataFetched, scan, task,
                 venueVars, storeVars, currentScanPredictions, CONFIG, hotSymbols,
                 lastTick, plan>>
SpecValidate == InitLogger /\ [][ValidationStore \/ validatePastPredictions]_vars

\* C34: validatePastPredictions validates only records that are unvalidated
\* and older than the validation window, each at most once; correct is true
\* iff the prediction is high-confidence and its direction matches the sign
\* of exitPrice - entryPrice, or it is low-confidence, no copy action was
\* taken and acting on it would have lost; paperPnl is (exitPrice -
\* entryPrice) * direction with a missing direction counted as 0.  A paper
\* P&L of exactly 0 is accepted either way for "would have lost".
C34_ValidationOutcome ==
  prediction.stage \in {"validated", "skipped"} /\ prediction.row.validations > 0 =>
    LET row == prediction.row
        high == row.prediction >= HIGH_CONFIDENCE_THRESHOLD
        matches == (row.exitPrice - row.entryPrice) * row.direction > 0
        noAction == row.copyAction \in {"null", "none"}
    IN /\ row.validations = 1
       /\ row.timestamp < row.validatedAt - VALIDATION_WINDOW_MS
       /\ row.paperPnl = (row.exitPrice - row.entryPrice) * row.direction
       /\ row.correct =>
            \/ high /\ matches
            \/ ~high /\ noAction /\ row.paperPnl <= 0
       /\ (high /\ matches) \/ (~high /\ noAction /\ row.paperPnl < 0) => row.correct

\* C35: flag truthfulness -- isScanRunning is true in every state in which
\* some scan body is executing; the exit of a scan that was force-reset as
\* hung does not clear the flag while a newer scan is still running.
C35_FlagTruthful == Running # {} => isScanRunning

\* A step of the syncPosition call of scan i for s.
TaskStep(i, s) == task'[i][s] # task[i][s]

\* C36: no orders after scan exit -- once scanTraders has returned for a
\* scan, no venue order, telemetry write, logCopyAction update, cool-down
\* write or tradedSymbols insertion is performed on behalf of that scan; a
\* syncPosition abandoned by its 30 s timer does not go on to place the open
\* leg of a flip or to update a prediction record.
C36_QuietAfterExit ==
  [][\A i \in ScanIds, s \in Symbols :
       scan[i].pc = "exited" /\ TaskStep(i, s) =>
         /\ task'[i][s].events = task[i][s].events
         /\ UNCHANGED <<ourPositions, tradeTable, predictionTable, failedOrders>>
         /\ scan'[i].tradedSymbols = scan[i].tradedSymbols]_vars

\* The order leg of the call of scan i for s returns normally in this step:
\* the call goes on to logCopyTrade, tradedSymbols.add and logCopyAction (and
\* to failedOrders.delete for open and flip).
ReachesRecord(i, s) == task[i][s].pc # "record" /\ task'[i][s].pc = "record"

\* C37: recorded actions are real -- a copy action is recorded for a symbol
\* only if the venue order was submitted and accepted: a close whose order
\* was rejected or whose position was absent, an open that returned because
\* a position already existed, and a flip whose close leg did not close the
\* position are not recorded as executed.
C37_RecordedIsReal ==
  [][\A i \in ScanIds, s \in Symbols :
       ReachesRecord(i, s) =>
         /\ LastEvent(i, s) \in {"closeReq", "openReq"}
         /\ ourPositions'[s] # ourPositions[s]]_vars

\* --- Flips at the gates: the operator is short where the target is long.
\* The pairs <<operator, target>>: a flip the free margin does not cover, a
\* flip below the minimum margin, a flip below the minimum notional, and a
\* flip that passes the gates (and is in its cool-down in the next scan when
\* one of its orders raised).
FlipPairs ==
  {<<"SOL", ShortPos(100, 5), LongPos(68, 5)>>,
   <<"SOL", ShortPos(20, 5), LongPos(2, 5)>>,
   <<"VVV", ShortPos(4, 1), LongPos(1, 1)>>,
   <<"SOL", ShortPos(10, 5), LongPos(68, 5)>>}

InitFlip ==
  /\ InitCommon
  /\ \E p \in FlipPairs :
       /\ ourPositions = [s \in Symbols |-> IF s = p[1] THEN p[2] ELSE NoPosition]
       /\ targetPositions = [s \in Symbols |-> IF s = p[1] THEN p[3] ELSE NoPosition]
  /\ ourEquity = OurEquity
  /\ CONFIG = Config(FALSE, LEVERAGE)
  /\ hotSymbols = {}
SpecFlip == InitFlip /\ [][NextCopy]_vars

\* A gate before the first await stops a flip of delta at time t.
StoppedAtOnce(delta, failed, t) ==
  \/ CoolingDown(failed, delta.symbol, t)
  \/ allMarkets[delta.symbol] = 0
  \/ BelowMinimums(delta)
\* The call of scan i for s is a flip that has not sent or recorded anything.
UntouchedFlip(tk) == tk.action = "flip" /\ tk.events = <<>>
\* The free-margin check of the call, on the portfolio read in this step.
MarginShort(i, s) ==
  ~Affordable(task[i][s].delta, getPortfolio(ourPositions, ourEquity).available)

AtScanEnd ==
  /\ \E i \in ScanIds : scan[i].pc = "exited"
  /\ \A i \in ScanIds : scan[i].pc \in {"idle", "exited"}

\* C39: independent records track the book -- whenever an independent
\* position record is open or confirmed at the end of a scan, the operator
\* holds a position in its symbol; when the copy planner closes the venue
\* position of a confirmed independent position because the target closed,
\* the record leaves {open, confirmed} in that scan.
C39_RecordsTrackBook ==
  AtScanEnd =>
    \A k \in AllActiveRows(independentPosition) :
      ourPositions[independentPosition[k].symbol].present

\* --- The end of a cool-down: the books of the cool-down scenario, scans
\* that end within the minute, and up to MaxNow minutes between the ticks.
AdvanceIdle == ~isScanRunning /\ Advance
NextExpire ==
  \/ AdvanceIdle
  \/ TickSkip
  \/ \E i \in ScanIds : TickStart(i)
  \/ \E i \in ScanIds : ScanHealth(i)
  \/ \E i \in ScanIds : ScanFetch(i)
  \/ \E i \in ScanIds : ScanPredict(i)
  \/ \E i \in ScanIds : BatchStart(i)
  \/ \E i \in ScanIds : BatchJoin(i)
  \/ \E i \in ScanIds : ScanFinalize(i)
  \/ \E i \in ScanIds, s \in Symbols : TaskMargin(i, s)
  \/ \E i \in ScanIds, s \in Symbols : TaskCloseLeg(i, s)
  \/ \E i \in ScanIds, s \in Symbols : TaskOpenLeg(i, s)
  \/ \E i \in ScanIds, s \in Symbols : TaskRecord(i, s)
  \/ \E i \in ScanIds, s \in Symbols : TaskSettle(i, s)
SpecExpire == InitCool /\ [][NextExpire]_vars

\* The window of the failure recorded for s has elapsed, or no failure is
\* recorded.
WindowElapsed(s) ==
  failedOrders[s] = 0 \/ now - failedOrders[s] >= FAILED_ORDER_COOLDOWN_MS

\* C40: cool-down expires -- a cool-down entry for S never suppresses an
\* open or flip of S once 5 minutes have elapsed since the recorded failure:
\* a scan that plans an open or flip of S then, with the minimums met, goes
\* on to the margin check and, when the free margin covers the position, to
\* its first order, whether or not the sweep at the start of the scan has
\* removed the entry.
C40_CoolDownExpires ==
  [][\A i \in ScanIds, s \in Symbols :
       LET tk == task[i][s]
           after == task'[i][s]
       IN /\ (tk.pc = "idle" /\ after.action \in {"open", "flip"}
                /\ WindowElapsed(s) /\ ~BelowMinimums(after.delta)
                /\ allMarkets[s] # 0) =>
               after.pc = "margin"
          /\ (tk.pc = "margin" /\ TaskStep(i, s) /\ ~MarginShort(i, s)
                /\ after.events = tk.events) =>
               after.pc = FirstLeg(tk.action)]_vars

\* The open of SOL failed in the first minute; the second scan, started
\* exactly five minutes later, found the entry still in the map and planned
\* the open, which is at its margin check.
C40_Witness ==
  /\ failedOrders["SOL"] # 0
  /\ now - failedOrders["SOL"] = FAILED_ORDER_COOLDOWN_MS
  /\ task[1]["SOL"].events = <<"coolSet">>
  /\ task[2]["SOL"].action = "open"
  /\ task[2]["SOL"].pc = "margin"
====
